---- MODULE Spec2Model ----
(***************************************************************************)
(* The chat context / streaming subsystem of doc_annotator:                *)
(*   - ContextManager (backend/app/services/context_manager.py): the       *)
(*     lexical task / goal / summary extraction and its merge step;        *)
(*   - the provider adapters, LLMClient and UnifiedLLMService              *)
(*     (llm_client.py, unified_llm_service.py): upstream frames to         *)
(*     StreamingResponse envelopes;                                        *)
(*   - ChatService.stream_chat_response (chat_service.py) and the          *)
(*     generator of the send_message route (api/chat.py): one turn.        *)
(*                                                                         *)
(* A Python str is a sequence of one-character strings, so that the        *)
(* regular expressions, lower(), strip(), split() and len() are computed   *)
(* as the code computes them.  An attribute that is None or empty is the   *)
(* empty sequence: the code reads these attributes only through            *)
(* `x or []`, `x or ""` and `not x`, which do not tell the two apart.      *)
(***************************************************************************)
EXTENDS Integers, Sequences, FiniteSets, TLC

Chars(s) == [i \in 1..Len(s) |-> SubSeq(s, i, i)]

SetMin(S) == CHOOSE x \in S : \A y \in S : x <= y

SeqRange(s) == {s[i] : i \in 1..Len(s)}

(***************************** Python str ********************************)

UpperLetters == Chars("ABCDEFGHIJKLMNOPQRSTUVWXYZ")

LowerLetters == Chars("abcdefghijklmnopqrstuvwxyz")

\* the lower-case letter of each upper-case letter
RECURSIVE LowerTable(_)
LowerTable(k) ==
    IF k = 0 THEN <<>>
    ELSE (UpperLetters[k] :> LowerLetters[k]) @@ LowerTable(k - 1)

ToLower == LowerTable(Len(UpperLetters))

LowerChar(c) == IF c \in DOMAIN ToLower THEN ToLower[c] ELSE c

IsSpace(c) == c \in {" ", "\n", "\t"}

IsDigit(c) == c \in {"0", "1", "2", "3", "4", "5", "6", "7", "8", "9"}

str_lower(t) == [i \in 1..Len(t) |-> LowerChar(t[i])]

str_strip(t) ==
    LET keep == {i \in 1..Len(t) : ~IsSpace(t[i])}
    IN  IF keep = {} THEN <<>>
        ELSE SubSeq(t, SetMin(keep), CHOOSE i \in keep : \A j \in keep : j <= i)

\* set(text.split()): the maximal runs of non-whitespace characters.
str_split_set(t) ==
    LET starts == {i \in 1..Len(t) : ~IsSpace(t[i]) /\ (i = 1 \/ IsSpace(t[i - 1]))}
        WordEnd(i) == SetMin({j \in i..Len(t) : j = Len(t) \/ IsSpace(t[j + 1])})
    IN  {SubSeq(t, i, WordEnd(i)) : i \in starts}

str_startswith_at(t, p, s) ==
    /\ p >= 1
    /\ p + Len(s) - 1 <= Len(t)
    /\ SubSeq(t, p, p + Len(s) - 1) = s

str_startswith(t, s) == str_startswith_at(t, 1, s)

str_endswith(t, s) ==
    Len(s) <= Len(t) /\ SubSeq(t, Len(t) - Len(s) + 1, Len(t)) = s

\* `s in t`
str_contains(t, s) == \E p \in 1..(Len(t) + 1) : str_startswith_at(t, p, s)

(************************** regular expressions ***************************)
(* The patterns of ContextManager all have the shape                       *)
(*     <head> <separator> ([^.]+)                                          *)
(* where the captured group is the last item.  A match is the pair         *)
(* <<first, last + 1>> of the captured group; NoMatch otherwise.           *)
(***************************************************************************)
NoMatch == <<0, 0>>

\* first index >= p holding a "." (Len + 1 when there is none)
NextDot(t, p) ==
    LET S == {i \in p..Len(t) : t[i] = "."}
    IN  IF S = {} THEN Len(t) + 1 ELSE SetMin(S)

\* first index >= p that does not hold whitespace: the end of a greedy \s*
WsEnd(t, p) ==
    LET S == {i \in p..Len(t) : ~IsSpace(t[i])}
    IN  IF S = {} THEN Len(t) + 1 ELSE SetMin(S)

\* the end of a greedy \d*
DigitsEnd(t, p) ==
    LET S == {i \in p..Len(t) : ~IsDigit(t[i])}
    IN  IF S = {} THEN Len(t) + 1 ELSE SetMin(S)

\* \s*([^.]+) from lo, where the whitespace run from lo ends at w: the group
\* starts after the whitespace; when no character other than "." follows, the
\* engine backtracks and the group is the last whitespace character.
CaptureAfterWs(t, lo, w) ==
    IF w <= Len(t) /\ t[w] # "." THEN <<w, NextDot(t, w)>>
    ELSE IF w > lo THEN <<w - 1, w>>
    ELSE NoMatch

\* \s+([^.]+) at q
TailWs1(t, q) ==
    IF q <= Len(t) /\ IsSpace(t[q]) THEN CaptureAfterWs(t, q + 1, WsEnd(t, q))
    ELSE NoMatch

\* :\s*([^.]+) at q
TailColon(t, q) ==
    IF q <= Len(t) /\ t[q] = ":" THEN CaptureAfterWs(t, q + 1, WsEnd(t, q + 1))
    ELSE NoMatch

\* \s*\d*:\s*([^.]+) at q
TailNumColon(t, q) == TailColon(t, DigitsEnd(t, WsEnd(t, q)))

\* ,?\s*([^.]+) at q
TailComma(t, q) ==
    LET c == IF q <= Len(t) /\ t[q] = "," THEN q + 1 ELSE q
        m == CaptureAfterWs(t, c, WsEnd(t, c))
    IN  IF m # NoMatch THEN m
        ELSE IF c > q THEN <<q, NextDot(t, q)>>
        ELSE NoMatch

SepThenGroup(t, q, sep) ==
    CASE sep = "ws1" -> TailWs1(t, q)
      [] sep = "colon" -> TailColon(t, q)
      [] sep = "numcolon" -> TailNumColon(t, q)
      [] sep = "comma" -> TailComma(t, q)

\* (?i)(?:cue1|cue2|...)<sep>([^.]+) at p: the alternatives in order
\* (tl is t lowered: re.IGNORECASE)
RECURSIVE MatchCues(_, _, _, _, _, _)
MatchCues(t, tl, p, cues, sep, k) ==
    IF k > Len(cues) THEN NoMatch
    ELSE LET cue == Chars(cues[k])
             m == IF str_startswith_at(tl, p, cue)
                  THEN SepThenGroup(t, p + Len(cue), sep) ELSE NoMatch
         IN  IF m # NoMatch THEN m ELSE MatchCues(t, tl, p, cues, sep, k + 1)

\* ^ under re.MULTILINE
AtLineStart(t, p) == p = 1 \/ t[p - 1] = "\n"

\* ^\s*\d+\.\s*([^.]+) at p
MatchNumbered(t, p) ==
    IF ~AtLineStart(t, p) THEN NoMatch
    ELSE LET a == WsEnd(t, p)
             b == DigitsEnd(t, a)
         IN  IF b > a /\ b <= Len(t) /\ t[b] = "."
             THEN CaptureAfterWs(t, b + 1, WsEnd(t, b + 1))
             ELSE NoMatch

\* ^\s*[-*]\s*([^.]+) at p
MatchBullet(t, p) ==
    IF ~AtLineStart(t, p) THEN NoMatch
    ELSE LET a == WsEnd(t, p)
         IN  IF a <= Len(t) /\ t[a] \in {"-", "*"}
             THEN CaptureAfterWs(t, a + 1, WsEnd(t, a + 1))
             ELSE NoMatch

MatchAt(t, tl, p, pat) ==
    CASE pat.kind = "cues" -> MatchCues(t, tl, p, pat.cues, pat.sep, 1)
      [] pat.kind = "numbered" -> MatchNumbered(t, p)
      [] pat.kind = "bullet" -> MatchBullet(t, p)

\* re.findall(pattern, text): the groups of the non-overlapping matches, left
\* to right; the scan takes the first position at or after p where the pattern
\* matches and resumes where that match ended.
RECURSIVE FindAllFrom(_, _, _, _)
FindAllFrom(pat, t, tl, p) ==
    LET S == {q \in p..Len(t) : MatchAt(t, tl, q, pat) # NoMatch}
    IN  IF S = {} THEN <<>>
        ELSE LET m == MatchAt(t, tl, SetMin(S), pat)
             IN  <<SubSeq(t, m[1], m[2] - 1)>> \o FindAllFrom(pat, t, tl, m[2])

re_findall(pat, t) == FindAllFrom(pat, t, str_lower(t), 1)

(**************************** ContextManager ******************************)

\* self.task_patterns, then the numbered-list and the bullet-list patterns,
\* each with the "source" tag its matches get
task_patterns ==
    << [kind |-> "cues", sep |-> "ws1", source |-> "extracted",
        cues |-> <<"need to", "should", "must", "have to", "going to", "will">>],
       [kind |-> "cues", sep |-> "colon", source |-> "extracted",
        cues |-> <<"todo", "to-do", "task">>],
       [kind |-> "cues", sep |-> "numcolon", source |-> "extracted",
        cues |-> <<"action", "step">>],
       [kind |-> "cues", sep |-> "comma", source |-> "extracted",
        cues |-> <<"next", "then", "after that">>] >>

numbered_pattern == [kind |-> "numbered", source |-> "numbered_list"]

bullet_pattern == [kind |-> "bullet", source |-> "bullet_list"]

goal_patterns ==
    << [kind |-> "cues", sep |-> "ws1",
        cues |-> <<"trying to", "wanting to", "need to", "goal is to",
                   "objective is to", "aim is to">>],
       [kind |-> "cues", sep |-> "ws1", cues |-> <<"working on", "focusing on">>],
       [kind |-> "cues", sep |-> "colon", cues |-> <<"problem", "issue", "challenge">>] >>

\* self.priority_keywords, in the dict's insertion order
priority_keywords ==
    << [priority |-> "high",
        keywords |-> {"urgent", "critical", "important", "asap", "priority", "immediately"}],
       [priority |-> "medium", keywords |-> {"should", "need", "important", "soon"}],
       [priority |-> "low",
        keywords |-> {"might", "could", "eventually", "later", "someday"}] >>

question_words ==
    {"what", "how", "why", "when", "where", "who", "which", "can", "could", "would", "should"}

MinTaskLen == 5

MinGoalLen == 10

LocalDedupNum == 8

MergeDedupNum == 7

RECURSIVE PriorityFrom(_, _)
PriorityFrom(text_lower, k) ==
    IF k > Len(priority_keywords) THEN "medium"
    ELSE IF \E kw \in priority_keywords[k].keywords : str_contains(text_lower, Chars(kw))
         THEN priority_keywords[k].priority
         ELSE PriorityFrom(text_lower, k + 1)

_determine_priority(text) == PriorityFrom(str_lower(text), 1)

_is_question(text) ==
    \/ str_endswith(text, <<"?">>)
    \/ \E w \in question_words : str_startswith(str_strip(str_lower(text)), Chars(w))

\* len(intersection) / len(union) as the pair <<numerator, denominator>>
_text_similarity(text1, text2) ==
    LET words1 == str_split_set(text1)
        words2 == str_split_set(text2)
    IN  IF words1 = {} /\ words2 = {} THEN <<1, 1>>
        ELSE IF words1 = {} \/ words2 = {} THEN <<0, 1>>
        ELSE <<Cardinality(words1 \cap words2), Cardinality(words1 \cup words2)>>

\* ratio > tenths / 10
ExceedsTenths(ratio, tenths) == ratio[1] * 10 > tenths * ratio[2]

RECURSIVE DedupFrom(_, _, _)
DedupFrom(tasks, k, unique_tasks) ==
    IF k > Len(tasks) THEN unique_tasks
    ELSE LET description == str_strip(str_lower(tasks[k].description))
             is_duplicate ==
                 \E i \in 1..Len(unique_tasks) :
                     ExceedsTenths(
                         _text_similarity(description,
                             str_strip(str_lower(unique_tasks[i].description))),
                         LocalDedupNum)
         IN  DedupFrom(tasks, k + 1,
                 IF is_duplicate THEN unique_tasks ELSE Append(unique_tasks, tasks[k]))

_deduplicate_tasks(tasks) == DedupFrom(tasks, 1, <<>>)

\* the matches of one pattern that survive the length (and, for bullets, the
\* question) filter, as tasks; the created_at stamp of a task is left out, no
\* code reads it
RECURSIVE TasksOfMatches(_, _, _)
TasksOfMatches(matches, pat, k) ==
    IF k > Len(matches) THEN <<>>
    ELSE LET task_text == str_strip(matches[k])
             keep == /\ Len(task_text) > MinTaskLen
                     /\ (pat.kind = "bullet" => ~_is_question(task_text))
         IN  (IF keep
              THEN << [description |-> task_text,
                       priority |-> _determine_priority(task_text),
                       source |-> pat.source] >>
              ELSE <<>>) \o TasksOfMatches(matches, pat, k + 1)

RECURSIVE TasksOfPatterns(_, _, _)
TasksOfPatterns(text, pats, k) ==
    IF k > Len(pats) THEN <<>>
    ELSE TasksOfMatches(re_findall(pats[k], text), pats[k], 1)
             \o TasksOfPatterns(text, pats, k + 1)

_extract_tasks(text) ==
    _deduplicate_tasks(
        TasksOfPatterns(text, task_patterns \o <<numbered_pattern, bullet_pattern>>, 1))

RECURSIVE GoalsOfMatches(_, _)
GoalsOfMatches(matches, k) ==
    IF k > Len(matches) THEN <<>>
    ELSE LET goal_text == str_strip(matches[k])
         IN  (IF Len(goal_text) > MinGoalLen THEN <<goal_text>> ELSE <<>>)
                 \o GoalsOfMatches(matches, k + 1)

RECURSIVE GoalsOfPatterns(_, _)
GoalsOfPatterns(text, k) ==
    IF k > Len(goal_patterns) THEN <<>>
    ELSE GoalsOfMatches(re_findall(goal_patterns[k], text), 1)
             \o GoalsOfPatterns(text, k + 1)

_extract_goals(text) == GoalsOfPatterns(text, 1)

\* a value that is no str: re.findall raises TypeError on it
None == <<"<None>">>

\* ChatContext (models/chat.py): the columns the chat subsystem reads or writes.
\* The class declares `summary`; it declares no `problem_summary`.
ChatContext_new(session_id) ==
    [session_id |-> session_id, summary |-> <<>>, current_goal |-> <<>>,
     tasks |-> <<>>, relevant_documents |-> <<>>, updated_at |-> 0]

\* the result of a call that may raise
Returned(context) == [raised |-> FALSE, context |-> context]

Raised(context) == [raised |-> TRUE, context |-> context]

\* is_duplicate of _update_tasks: the new task against the tasks of the list
MergeIsDuplicate(existing_tasks, new_task) ==
    \E i \in 1..Len(existing_tasks) :
        ExceedsTenths(
            _text_similarity(str_lower(existing_tasks[i].description),
                             str_lower(new_task.description)),
            MergeDedupNum)

\* the loop of _update_tasks; the list being appended to is the list compared
\* against, so a task inserted earlier in the same call counts as existing
RECURSIVE MergeFrom(_, _, _, _)
MergeFrom(existing_tasks, new_tasks, k, now) ==
    IF k > Len(new_tasks) THEN existing_tasks
    ELSE MergeFrom(
             IF MergeIsDuplicate(existing_tasks, new_tasks[k]) THEN existing_tasks
             ELSE Append(existing_tasks,
                      [description |-> new_tasks[k].description,
                       priority |-> new_tasks[k].priority,
                       source |-> new_tasks[k].source,
                       id |-> <<Len(existing_tasks) + 1, now>>,
                       status |-> "pending"]),
             new_tasks, k + 1, now)

_update_tasks_snapshot(context, new_tasks, now) ==
    IF new_tasks = <<>> THEN context
    ELSE LET fresh == SelectSeq(new_tasks,
                                LAMBDA t : ~MergeIsDuplicate(context.tasks, t))
         IN  [context EXCEPT !.tasks =
                 context.tasks \o
                 [i \in 1..Len(fresh) |->
                     [description |-> fresh[i].description,
                      priority |-> fresh[i].priority,
                      source |-> fresh[i].source,
                      id |-> <<Len(context.tasks) + i, now>>,
                      status |-> "pending"]]]

_update_tasks(context, new_tasks, now) ==
    IF new_tasks = <<>> THEN context
    ELSE [context EXCEPT !.tasks = MergeFrom(context.tasks, new_tasks, 1, now)]

\* max(new_goals, key=len): the first of the longest
MostSpecific(new_goals) ==
    new_goals[SetMin({i \in 1..Len(new_goals) :
                         \A j \in 1..Len(new_goals) : Len(new_goals[j]) <= Len(new_goals[i])})]

_update_goals_latest(context, new_goals) ==
    IF new_goals = <<>> THEN context
    ELSE [context EXCEPT !.current_goal = MostSpecific(new_goals)]

_update_goals(context, new_goals) ==
    IF new_goals = <<>> THEN context
    ELSE IF Len(MostSpecific(new_goals)) > Len(context.current_goal)
         THEN [context EXCEPT !.current_goal = MostSpecific(new_goals)]
         ELSE context

SummaryMinMessageLen == 20

SummaryMinSentenceLen == 10

SummaryMaxLen == 150

\* re.split(r'[.!?]+', user_message)[0]
FirstSentence(user_message) ==
    LET S == {i \in 1..Len(user_message) : user_message[i] \in {".", "!", "?"}}
    IN  IF S = {} THEN user_message ELSE SubSeq(user_message, 1, SetMin(S) - 1)

\* the text _update_summary stores (lines 218-224)
SummaryText(user_message) ==
    IF Len(FirstSentence(user_message)) > SummaryMinSentenceLen
    THEN str_strip(FirstSentence(user_message))
    ELSE str_strip(SubSeq(user_message, 1,
                          IF Len(user_message) < SummaryMaxLen
                          THEN Len(user_message) ELSE SummaryMaxLen))
             \o (IF Len(user_message) > SummaryMaxLen THEN Chars("...") ELSE <<>>)

\* _update_summary reads and writes the attribute `problem_summary`; reading an
\* attribute the object does not have raises AttributeError (line 216)
_update_summary(context, user_message, assistant_response, now) ==
    IF "problem_summary" \notin DOMAIN context THEN Raised(context)
    ELSE Returned(
             [(IF context.problem_summary = <<>> /\ Len(user_message) > SummaryMinMessageLen
               THEN [context EXCEPT !.problem_summary = SummaryText(user_message)]
               ELSE context)
              EXCEPT !.updated_at = now])

\* the texts of the model, each extracted once
UserTexts ==
    { Chars("I need to fix the login bug. TODO: write tests."),
      Chars("We should Test API test."),
      Chars("We should Test API test again."),
      Chars("I am trying to resolve all authentication issues."),
      Chars("Hi. The goal is to fix it quickly") }

ChunkTexts ==
    { Chars("You should test API Test."),
      Chars("Next, deploy the service. We are working on the deployment pipeline."),
      Chars("1. First task\n2. Second task") }

RECURSIVE Concats(_)
Concats(n) ==
    IF n = 0 THEN {<<>>}
    ELSE Concats(n - 1) \cup {a \o b : a \in Concats(n - 1), b \in ChunkTexts}

MaxChunks == 2

AssistantTexts == Concats(MaxChunks)

AllTexts == UserTexts \cup AssistantTexts

\* every text with what the extractors give for it
Extractions ==
    {[text |-> t, tasks |-> _extract_tasks(t), goals |-> _extract_goals(t)] : t \in AllTexts}

ExtractedTasks(text) == (CHOOSE e \in Extractions : e.text = text).tasks

ExtractedGoals(text) == (CHOOSE e \in Extractions : e.text = text).goals

\* update_from_conversation: the extractions come first and raise on a value
\* that is no str; an exception at any step is swallowed (lines 55-56) and
\* what the steps before it did to the context stays
update_from_conversation(context, user_message, assistant_response, now) ==
    IF user_message = None \/ assistant_response = None THEN context
    ELSE LET new_tasks == ExtractedTasks(user_message) \o ExtractedTasks(assistant_response)
             new_goals == ExtractedGoals(user_message) \o ExtractedGoals(assistant_response)
             merged == _update_goals(_update_tasks(context, new_tasks, now), new_goals)
         IN  _update_summary(merged, user_message, assistant_response, now).context

\* ---------------------------------------------------------------------------
\* schemas/chat.py: the streaming envelope
\* ---------------------------------------------------------------------------

\* Optional[...] = None
NoValue == [none |-> TRUE]

\* the declared fields of StreamingResponse and their defaults; pydantic drops
\* every keyword that is no declared field
StreamingResponse(kwargs) ==
    [type |-> kwargs.type,
     content |-> IF "content" \in DOMAIN kwargs THEN kwargs.content ELSE <<>>,
     metadata |-> IF "metadata" \in DOMAIN kwargs THEN kwargs.metadata ELSE NoValue,
     error |-> IF "error" \in DOMAIN kwargs THEN kwargs.error ELSE NoValue]

IsTerminal(e) == e.type \in {"complete", "error"}

\* ---------------------------------------------------------------------------
\* Provider adapters.  An upstream frame is what one read of the provider's
\* response gives the adapter:
\*   content         a delta with text
\*   content_finish  a delta with text and a finish_reason in the same frame
\*   finish          a finish_reason / message_stop frame without text
\*   done            the "[DONE]" sentinel line
\*   noise           a frame the adapter has no use for (no choices, no JSON,
\*                   another event type, a line without the data prefix)
\*   eof             the response ends
\*   raise           the open, the status check or the read raises, or the
\*                   response ends and closing it raises
\* An adapter that yields its complete envelope inside "async with" is
\* suspended in the block; when it is resumed it leaves the block, and the
\* exit of the context manager is one more read of the upstream:
\*   close           the response closes
\*   close_raise     closing the response raises
\* An adapter step gives the envelopes it yields for the frame, whether its
\* generator has ended, and whether it is suspended before such an exit.
\* ---------------------------------------------------------------------------

Frame(kind, content, usage) == [kind |-> kind, content |-> content, usage |-> usage]

Step(emit, closed) == [emit |-> emit, closed |-> closed, exiting |-> FALSE]

StepExiting(emit) == [emit |-> emit, closed |-> FALSE, exiting |-> TRUE]

ExitKinds == {"close", "close_raise"}

ReportedOutputTokens == 3

UsageDict == [output_tokens |-> ReportedOutputTokens]

UsageObject == [object |-> TRUE]

ErrorEnvelope(message) ==
    StreamingResponse([type |-> "error", content |-> <<>>, error |-> [message |-> message]])

\* OpenAIProvider.chat_completion, stream=True: chunks of the SDK stream
OpenAIProviderStep(frame) ==
    LET chunk == StreamingResponse([type |-> "chunk", content |-> frame.content,
                                    metadata |-> [chunk_id |-> TRUE]])
        complete == StreamingResponse([type |-> "complete", content |-> <<>>,
                                       metadata |-> [finish_reason |-> TRUE, model |-> TRUE,
                                                     usage |-> frame.usage]])
    IN  CASE frame.kind = "content" -> Step(<<chunk>>, FALSE)
          [] frame.kind = "content_finish" -> Step(<<chunk, complete>>, TRUE)
          [] frame.kind = "finish" -> Step(<<complete>>, TRUE)
          [] frame.kind = "eof" -> Step(<<>>, TRUE)
          [] frame.kind = "raise" -> Step(<<ErrorEnvelope("OpenAI API error")>>, TRUE)
          [] OTHER -> Step(<<>>, FALSE)

\* AnthropicProvider.chat_completion, stream=True: the texts of text_stream;
\* the complete envelope follows the end of the text stream
AnthropicProviderStep(frame) ==
    LET chunk == StreamingResponse([type |-> "chunk", content |-> frame.content])
        complete == StreamingResponse([type |-> "complete", content |-> <<>>,
                                       metadata |-> [model |-> TRUE, usage |-> frame.usage]])
    IN  CASE frame.kind = "content" -> Step(<<chunk>>, FALSE)
          [] frame.kind = "eof" -> StepExiting(<<complete>>)
          [] frame.kind = "close" -> Step(<<>>, TRUE)
          [] frame.kind \in {"raise", "close_raise"} ->
                Step(<<ErrorEnvelope("Anthropic API error")>>, TRUE)
          [] OTHER -> Step(<<>>, FALSE)

\* CustomEndpointProvider.chat_completion, stream=True: lines of the response
CustomEndpointProviderStep(frame) ==
    LET chunk == StreamingResponse([type |-> "chunk", content |-> frame.content])
        complete == StreamingResponse([type |-> "complete", content |-> <<>>])
    IN  CASE frame.kind \in {"content", "content_finish"} -> Step(<<chunk>>, FALSE)
          [] frame.kind = "done" -> StepExiting(<<complete>>)
          [] frame.kind \in {"eof", "close"} -> Step(<<>>, TRUE)
          [] frame.kind \in {"raise", "close_raise"} ->
                Step(<<ErrorEnvelope("Custom endpoint error")>>, TRUE)
          [] OTHER -> Step(<<>>, FALSE)

\* UnifiedLLMService._openai_chat_completion, stream=True
UnifiedOpenAIStep(frame) ==
    LET chunk == StreamingResponse([type |-> "chunk", content |-> frame.content,
                                    metadata |-> [model |-> TRUE]])
        finished == StreamingResponse([type |-> "complete", content |-> <<>>,
                                       metadata |-> [finish_reason |-> TRUE, model |-> TRUE]])
        done == StreamingResponse([type |-> "complete", content |-> <<>>])
    IN  CASE frame.kind = "content" -> Step(<<chunk>>, FALSE)
          [] frame.kind = "content_finish" -> StepExiting(<<chunk, finished>>)
          [] frame.kind = "finish" -> StepExiting(<<finished>>)
          [] frame.kind = "done" -> StepExiting(<<done>>)
          [] frame.kind \in {"eof", "close"} -> Step(<<>>, TRUE)
          [] frame.kind \in {"raise", "close_raise"} ->
                Step(<<ErrorEnvelope("HTTP error")>>, TRUE)
          [] OTHER -> Step(<<>>, FALSE)

\* UnifiedLLMService._anthropic_chat_completion, stream=True
UnifiedAnthropicStep(frame) ==
    LET chunk == StreamingResponse([type |-> "chunk", content |-> frame.content])
        complete == StreamingResponse([type |-> "complete", content |-> <<>>])
    IN  CASE frame.kind = "content" -> Step(<<chunk>>, FALSE)
          [] frame.kind = "finish" -> StepExiting(<<complete>>)
          [] frame.kind \in {"eof", "close"} -> Step(<<>>, TRUE)
          [] frame.kind \in {"raise", "close_raise"} ->
                Step(<<ErrorEnvelope("request failed")>>, TRUE)
          [] OTHER -> Step(<<>>, FALSE)

AdapterStep(adapter, frame) ==
    CASE adapter = "OpenAIProvider" -> OpenAIProviderStep(frame)
      [] adapter = "AnthropicProvider" -> AnthropicProviderStep(frame)
      [] adapter = "CustomEndpointProvider" -> CustomEndpointProviderStep(frame)
      [] adapter = "unified_openai" -> UnifiedOpenAIStep(frame)
      [] adapter = "unified_anthropic" -> UnifiedAnthropicStep(frame)

\* what the upstream of an adapter can send: the SDK streams hide the protocol
\* frames, the HTTP responses show every line
FrameKinds(adapter) ==
    CASE adapter = "OpenAIProvider" -> {"content", "content_finish", "finish", "noise", "eof", "raise"}
      [] adapter = "AnthropicProvider" -> {"content", "eof", "raise"}
      [] OTHER -> {"content", "content_finish", "finish", "done", "noise", "eof", "raise"}

\* the usage a final frame can report to the adapter
FrameUsages(adapter, kind) ==
    CASE adapter = "OpenAIProvider" /\ kind \in {"content_finish", "finish"} -> {NoValue, UsageObject}
      [] adapter = "AnthropicProvider" /\ kind = "eof" -> {NoValue, UsageDict}
      [] OTHER -> {NoValue}

\* ---------------------------------------------------------------------------
\* LLMClient (llm_client.py)
\* ---------------------------------------------------------------------------

OpenAIPrefixes ==
    {Chars("gpt-"), Chars("text-"), Chars("davinci"), Chars("curie"), Chars("babbage"),
     Chars("ada")}

AnthropicPrefixes == {Chars("claude-")}

\* the order in which initialize registers the providers
RegistrationOrder == <<"openai", "anthropic", "custom">>

CHAT_DEFAULT_PROVIDER == "openai"

NoProvider == "none"

\* providers.get(name)
ProviderGet(providers, name) == IF name \in providers THEN name ELSE NoProvider

get_default_provider(providers) ==
    IF CHAT_DEFAULT_PROVIDER \in providers THEN CHAT_DEFAULT_PROVIDER
    ELSE IF providers # {}
         THEN RegistrationOrder[SetMin({i \in 1..Len(RegistrationOrder) :
                                           RegistrationOrder[i] \in providers})]
         ELSE NoProvider

get_provider_for_model_default_first(providers, model) ==
    IF \E p \in OpenAIPrefixes : str_startswith(model, p) THEN ProviderGet(providers, "openai")
    ELSE IF \E p \in AnthropicPrefixes : str_startswith(model, p)
         THEN ProviderGet(providers, "anthropic")
         ELSE IF CHAT_DEFAULT_PROVIDER \in providers THEN CHAT_DEFAULT_PROVIDER
              ELSE IF "custom" \in providers THEN "custom" ELSE get_default_provider(providers)

get_provider_for_model(providers, model) ==
    IF \E p \in OpenAIPrefixes : str_startswith(model, p) THEN ProviderGet(providers, "openai")
    ELSE IF \E p \in AnthropicPrefixes : str_startswith(model, p)
         THEN ProviderGet(providers, "anthropic")
         ELSE IF "custom" \in providers THEN "custom" ELSE get_default_provider(providers)

ProviderClass(name) ==
    CASE name = "openai" -> "OpenAIProvider"
      [] name = "anthropic" -> "AnthropicProvider"
      [] name = "custom" -> "CustomEndpointProvider"

\* a stream in progress: the adapter that feeds it, the envelopes it has
\* yielded and the consumer has not taken yet, whether the generator has
\* ended, whether it is suspended before the exit of its context manager
LlmStream(adapter, pending, closed) ==
    [adapter |-> adapter, pending |-> pending, closed |-> closed, exiting |-> FALSE]

NoStream == LlmStream(NoProvider, <<>>, TRUE)

LLMClient_chat_completion_default(providers, model) ==
    IF get_provider_for_model(providers, model) = NoProvider
    THEN LlmStream(ProviderClass(get_default_provider(providers)), <<>>, FALSE)
    ELSE LlmStream(ProviderClass(get_provider_for_model(providers, model)), <<>>, FALSE)

\* LLMClient.chat_completion up to the provider's first read
LLMClient_chat_completion(providers, model) ==
    IF get_provider_for_model(providers, model) = NoProvider
    THEN LlmStream(NoProvider, <<ErrorEnvelope("No provider available for model")>>, TRUE)
    ELSE LlmStream(ProviderClass(get_provider_for_model(providers, model)), <<>>, FALSE)

\* ---------------------------------------------------------------------------
\* UnifiedLLMService (unified_llm_service.py); the configuration is that of
\* a llms.yaml with one model per provider type and one model whose provider
\* key names no provider
\* ---------------------------------------------------------------------------

\* the fields of the dataclass ProviderConfig, and those without a default
ProviderConfigFields == {"type", "base_url", "api_key_env", "max_tokens_param"}

ProviderConfigRequired == {"type", "base_url", "api_key_env"}

\* ProviderConfig(**provider_data): a keyword that is no field, or a missing
\* field without default, is a TypeError
ProviderConfigRaises(provider_data) ==
    \/ ~(DOMAIN provider_data \subseteq ProviderConfigFields)
    \/ ~(ProviderConfigRequired \subseteq DOMAIN provider_data)

ProviderConfig(provider_data) ==
    [type |-> provider_data.type, api_key_env |-> provider_data.api_key_env]

\* the models of llms.yaml: their provider keys, in the order of the file
UnifiedModelOrder ==
    <<Chars("model_openai"), Chars("model_anthropic"), Chars("model_other"),
      Chars("model_dangling")>>

UnifiedModels ==
    [m \in {UnifiedModelOrder[i] : i \in 1..Len(UnifiedModelOrder)} |->
        CASE m = Chars("model_openai") -> "provider_openai"
          [] m = Chars("model_anthropic") -> "provider_anthropic"
          [] m = Chars("model_other") -> "provider_other"
          [] m = Chars("model_dangling") -> "provider_missing"]

\* the providers of llms.yaml as yaml.safe_load returns them
UnifiedProviders ==
    [p \in {"provider_openai", "provider_anthropic", "provider_other"} |->
        CASE p = "provider_openai" ->
                 [type |-> "openai", base_url |-> "url", api_key_env |-> "OPENAI_API_KEY",
                  max_tokens_param |-> "max_completion_tokens"]
          [] p = "provider_anthropic" ->
                 [type |-> "anthropic", base_url |-> "url", api_key_env |-> "ANTHROPIC_API_KEY"]
          [] p = "provider_other" ->
                 [type |-> "other", base_url |-> "url", api_key_env |-> "OTHER_API_KEY"]]

\* the names of the credential variables os.environ may hold
EnvNames == {"OPENAI_API_KEY", "ANTHROPIC_API_KEY", "OTHER_API_KEY"}

\* a configuration file: its providers, its models, its default model
LlmsYaml(provider_data, default_model) ==
    [providers |-> provider_data, models |-> UnifiedModels, model_order |-> UnifiedModelOrder,
     default_model |-> default_model]

\* the providers of a file that flags provider_openai as an intranet provider
IntranetProviders ==
    [p \in DOMAIN UnifiedProviders |->
        [k \in DOMAIN UnifiedProviders[p] \cup {"intranet"} |->
            IF k = "intranet" THEN IF p = "provider_openai" THEN "true" ELSE "false"
            ELSE UnifiedProviders[p][k]]]

\* the files the service is constructed from
ConfigFiles ==
    {LlmsYaml(UnifiedProviders, m) : m \in {Chars("model_openai"), Chars("model_anthropic")}}
    \cup {LlmsYaml(IntranetProviders, Chars("model_openai"))}

\* UnifiedLLMService() whose _load_config raised: the module has no llm_service
NoService ==
    [raised |-> TRUE, providers |-> <<>>, models |-> <<>>, model_order |-> <<>>,
     default_model |-> <<>>]

\* UnifiedLLMService.__init__ and _load_config
_load_config(config) ==
    IF \E p \in DOMAIN config.providers : ProviderConfigRaises(config.providers[p])
    THEN NoService
    ELSE [raised |-> FALSE,
          providers |-> [p \in DOMAIN config.providers |-> ProviderConfig(config.providers[p])],
          models |-> config.models, model_order |-> config.model_order,
          default_model |-> config.default_model]

\* bool(os.getenv(provider.api_key_env))
_is_provider_available(provider, env) == provider.api_key_env \in env

\* provider = self.providers.get(model_config.provider);
\* provider and self._is_provider_available(provider)
ModelAvailable(service, env, model_id) ==
    /\ service.models[model_id] \in DOMAIN service.providers
    /\ _is_provider_available(service.providers[service.models[model_id]], env)

\* the ids of the summaries get_available_models returns, in their order
get_available_models(service, env) ==
    SelectSeq(service.model_order, LAMBDA m : ModelAvailable(service, env, m))

get_default_model_id(service) == service.default_model

\* provider_config = self.providers[model_config.provider] (line 139) is a
\* KeyError outside the try of chat_completion
UnifiedResolveRaises(service, model_id) ==
    /\ model_id \in DOMAIN service.models
    /\ service.models[model_id] \notin DOMAIN service.providers

\* UnifiedLLMService.chat_completion up to the backend's first read
UnifiedLLMService_chat_completion(service, model_id) ==
    IF model_id \notin DOMAIN service.models
    THEN LlmStream(NoProvider, <<ErrorEnvelope("Model not found in configuration")>>, TRUE)
    ELSE LET type == service.providers[service.models[model_id]].type
         IN  CASE type = "openai" -> LlmStream("unified_openai", <<>>, FALSE)
               [] type = "anthropic" -> LlmStream("unified_anthropic", <<>>, FALSE)
               [] OTHER -> LlmStream(NoProvider,
                                     <<ErrorEnvelope("Unsupported provider type")>>, TRUE)

\* ---------------------------------------------------------------------------
\* State
\* ---------------------------------------------------------------------------

VARIABLES
    scenario,     \* which callers the environment has
    clock,        \* datetime.utcnow(), in seconds
    cm_context,   \* the ChatContext a ContextManager is called on
    cm_calls,     \* the update_from_conversation calls made on it
    cm_last,      \* the arguments of the last of them
    providers,    \* LLMClient.providers after initialize
    dbSessions,   \* table chat_sessions, committed rows
    dbMessages,   \* table chat_messages, committed rows in insertion order
    dbContexts,   \* table chat_contexts, committed rows
    pc,           \* where each turn stands
    turn,         \* the locals of each turn
    llm,          \* the provider stream of each turn
    out,          \* the envelopes each turn has delivered to its caller
    environ,      \* os.environ: the credential variables that are set
    llm_service,  \* the UnifiedLLMService of the module
    available_models,  \* what the last get_available_models returned
    default_model_id,  \* what the last get_default_model_id returned
    fn_call            \* the last call of a helper made on its own

vars == <<scenario, clock, cm_context, cm_calls, cm_last, providers, dbSessions, dbMessages,
          dbContexts, pc, turn, llm, out, environ, llm_service, available_models,
          default_model_id, fn_call>>

regVars == <<environ, llm_service, available_models, default_model_id>>

cmVars == <<cm_context, cm_calls, cm_last>>

turnVars == <<scenario, providers, dbSessions, dbMessages, dbContexts, pc, turn, llm, out,
              regVars, fn_call>>

MaxClock == 1

MaxCalls == 2

Turns == {1, 2}

SessionIds == {"s1", "s2"}

NoCall == [user_message |-> None, assistant_response |-> None, made |-> FALSE]

Request(kind, session_id, user_id, content, settings, context_options, model, service, assistant) ==
    [kind |-> kind, session_id |-> session_id, user_id |-> user_id, content |-> content,
     settings |-> settings, context_options |-> context_options, model |-> model,
     service |-> service, assistant |-> assistant]

NoRequest == Request("none", "", 0, <<>>, "absent", "absent", <<>>, "", <<>>)

NoSession == [found |-> FALSE]

\* the locals of a turn: the request, the ChatSession object it loaded, the
\* ids of the rows it added, the history it read, the text it accumulated; and
\* what its caller got besides the stream: inserted is the set of task
\* descriptions its context merge committed, http_status the status of a
\* request that ended before streaming, raised whether an exception escaped,
\* extractor whether update_from_conversation was called with its texts,
\* conversation the messages handed to chat_completion, each as the id of the
\* row it was built from and the system prompt as 0
IdleTurn ==
    [request |-> NoRequest, session |-> NoSession, user_message |-> 0, recent_messages |-> <<>>,
     full_response |-> <<>>, assistant_message |-> 0, inserted |-> {}, http_status |-> 0,
     raised |-> FALSE, extractor |-> FALSE, conversation |-> <<>>,
     complete_received |-> FALSE, cancelled |-> FALSE]

\* title = Column(String(200), default="New Chat")
NewChat == <<"N", "e", "w", " ", "C", "h", "a", "t">>

\* the tables after the sessions were created: s1 belongs to user 1, s2 to
\* user 2; create_chat_session adds a context row, ChatService.create_session
\* does not
InitDb(rows) ==
    /\ dbSessions = [s \in SessionIds |->
                        [user_id |-> IF s = "s1" THEN 1 ELSE 2, message_count |-> 0,
                         title |-> NewChat]]
    /\ dbMessages = <<>>
    /\ dbContexts = [s \in SessionIds |-> IF s \in rows THEN <<ChatContext_new(s)>> ELSE <<>>]

\* no helper called yet
NoFnCall == [fn |-> "none"]

InitTurns ==
    /\ fn_call = NoFnCall
    /\ pc = [t \in Turns |-> "idle"]
    /\ turn = [t \in Turns |-> IdleTurn]
    /\ llm = [t \in Turns |-> NoStream]
    /\ out = [t \in Turns |-> <<>>]

\* no call of the model endpoints yet
NoAnswer == [called |-> FALSE, value |-> <<>>]

Answer(value) == [called |-> TRUE, value |-> value]

\* the service of the module, constructed from a configuration file
InitRegistry(files, envs) ==
    /\ environ \in envs
    /\ \E config \in files : llm_service = _load_config(config)
    /\ available_models = NoAnswer
    /\ default_model_id = NoAnswer

\* ---------------------------------------------------------------------------
\* ContextManager called on one context, call after call
\* ---------------------------------------------------------------------------

CmUserTexts == UserTexts \cup {None}

CmAssistantTexts == ChunkTexts \cup {<<>>}

InitCtx ==
    /\ scenario = "context_manager"
    /\ clock = 0
    /\ cm_context = ChatContext_new("s1")
    /\ cm_calls = 0
    /\ cm_last = NoCall
    /\ providers = {}
    /\ InitDb({})
    /\ InitTurns
    /\ InitRegistry({LlmsYaml(UnifiedProviders, Chars("model_openai"))}, {EnvNames})

Tick ==
    /\ clock < MaxClock
    /\ clock' = clock + 1
    /\ UNCHANGED <<cmVars, turnVars>>

UpdateFromConversation ==
    /\ cm_calls < MaxCalls
    /\ \E user_message \in CmUserTexts, assistant_response \in CmAssistantTexts :
          /\ cm_context' = update_from_conversation(cm_context, user_message,
                                                    assistant_response, clock)
          /\ cm_last' = [user_message |-> user_message,
                         assistant_response |-> assistant_response, made |-> TRUE]
    /\ cm_calls' = cm_calls + 1
    /\ UNCHANGED <<clock, turnVars>>

NextCtx == UpdateFromConversation \/ Tick

SpecCtx == InitCtx /\ [][NextCtx]_vars

\* all but the k-th
RemoveAt(s, k) == SubSeq(s, 1, k - 1) \o SubSeq(s, k + 1, Len(s))

\* update_session_context with a task list that drops one of the tasks: the
\* setattr of each field of the update (chat_service.py lines 420-427,
\* chat.py lines 371-378)
EditContextTasks ==
    /\ \E k \in 1..Len(cm_context.tasks) :
          cm_context' = [cm_context EXCEPT !.tasks = RemoveAt(@, k)]
    /\ UNCHANGED <<clock, cm_calls, cm_last, turnVars>>

NextCtxEdit == NextCtx \/ EditContextTasks

\* the extraction merges and the explicit edits of one context
SpecCtxEdit == InitCtx /\ [][NextCtxEdit]_vars

\* the descriptions of a task list
Descriptions(tasks) == {tasks[i].description : i \in 1..Len(tasks)}

\* the tasks and the goals the last call extracted from its two texts
LastCandidates ==
    IF cm_last.made /\ cm_last.user_message # None
    THEN ExtractedTasks(cm_last.user_message) \o ExtractedTasks(cm_last.assistant_response)
    ELSE <<>>

LastGoals ==
    IF cm_last.made /\ cm_last.user_message # None
    THEN ExtractedGoals(cm_last.user_message) \o ExtractedGoals(cm_last.assistant_response)
    ELSE <<>>

\* C6 as stated: after any sequence of update_from_conversation calls on a
\* context that started without tasks, no two tasks of the context have
\* descriptions whose word-Jaccard similarity exceeds 0.7.
C6_NoSimilarDescriptions ==
    \A i, j \in 1..Len(cm_context.tasks) :
        i < j => ~ExceedsTenths(_text_similarity(cm_context.tasks[i].description,
                                                 cm_context.tasks[j].description),
                                MergeDedupNum)

\* C6 amended: after any sequence of update_from_conversation calls on a
\* context that started without tasks, no two tasks of the context have
\* descriptions whose lower-cased forms have word-Jaccard similarity above 0.7,
\* two tasks inserted by the same call included.
C6_NoSimilarLoweredDescriptions ==
    \A i, j \in 1..Len(cm_context.tasks) :
        i < j => ~ExceedsTenths(_text_similarity(str_lower(cm_context.tasks[i].description),
                                                 str_lower(cm_context.tasks[j].description)),
                                MergeDedupNum)

\* a call on a context with two tasks or more turned a candidate down
C6_Witness ==
    /\ Len(cm_context.tasks) >= 2
    /\ \E k \in 1..Len(LastCandidates) :
          LastCandidates[k].description \notin Descriptions(cm_context.tasks)

\* C9: across update_from_conversation calls on one context the length of
\* current_goal never decreases: a step leaves current_goal as it is or puts a
\* strictly longer goal, one the call extracted, in its place.
C9_GoalNeverShrinks ==
    [][\/ cm_context'.current_goal = cm_context.current_goal
       \/ /\ Len(cm_context'.current_goal) > Len(cm_context.current_goal)
          /\ \E k \in 1..Len(LastGoals') : LastGoals'[k] = cm_context'.current_goal]_vars

\* a second call offered a goal shorter than the one the context holds, and
\* the context kept the longer one
C9_Witness ==
    /\ cm_calls >= 2
    /\ cm_context.current_goal # <<>>
    /\ \E k \in 1..Len(LastGoals) : Len(LastGoals[k]) < Len(cm_context.current_goal)

\* C10: the summary is set once: a call on a context without summary whose user
\* message has more than 20 characters sets the summary to the text
\* _update_summary picks (the trimmed first sentence if longer than 10
\* characters, else the first 150 characters, with an ellipsis when cut); a
\* call on a context with a summary leaves the summary alone.
C10_SummarySetOnce ==
    [][cm_calls' = cm_calls + 1 =>
          IF cm_context.summary = <<>>
          THEN (cm_last'.user_message # None
                /\ Len(cm_last'.user_message) > SummaryMinMessageLen)
               => cm_context'.summary = SummaryText(cm_last'.user_message)
          ELSE cm_context'.summary = cm_context.summary]_vars

\* whether a step of update_from_conversation raised (and the except of lines
\* 55-56 swallowed it): an extraction on a value that is no str, or
\* _update_summary on the context the merges left
SwallowedError(context, user_message, assistant_response, now) ==
    \/ user_message = None
    \/ assistant_response = None
    \/ _update_summary(
           _update_goals(
               _update_tasks(context,
                             ExtractedTasks(user_message) \o ExtractedTasks(assistant_response),
                             now),
               ExtractedGoals(user_message) \o ExtractedGoals(assistant_response)),
           user_message, assistant_response, now).raised

\* C11: update_from_conversation never raises, and a call in which a step
\* failed leaves the tasks, the current_goal and the summary of the context as
\* they were before the call.
C11_ErrorLeavesContext ==
    [][(/\ cm_calls' = cm_calls + 1
        /\ SwallowedError(cm_context, cm_last'.user_message, cm_last'.assistant_response, clock))
          => /\ cm_context'.tasks = cm_context.tasks
             /\ cm_context'.current_goal = cm_context.current_goal
             /\ cm_context'.summary = cm_context.summary]_vars

\* ---------------------------------------------------------------------------
\* Turns: ChatService.stream_chat_response ("service"), the generator of the
\* send_message route ("route"), a caller that drains a chat_completion stream
\* ("direct"), and a caller of ChatService.get_session followed by
\* _update_context_from_conversation ("merge").  A turn advances from one
\* await to the next; the turns of different requests interleave at the awaits.
\* ---------------------------------------------------------------------------

HistoryLimit == 20

\* the fields ChatSettings declares
ChatSettingsFields ==
    {"model", "temperature", "maxTokens", "webBrowsing", "deepResearch", "includeDocuments"}

\* the attributes stream_chat_response reads from message_data.settings
ServiceSettingsReads == {"model", "temperature", "max_tokens"}

\* reading an attribute the settings object does not declare raises
SettingsRaise(settings) ==
    settings = "present" /\ \E a \in ServiceSettingsReads : a \notin ChatSettingsFields

DefaultModel == Chars("gpt-4")

\* _build_system_prompt reads context.problem_summary first (line 311)
_build_system_prompt(context) ==
    IF "problem_summary" \notin DOMAIN context THEN Raised(context) ELSE Returned(context)

\* the keywords _update_context_from_conversation passes to ChatContext
ContextKeywords == {"session_id", "problem_summary", "current_goal", "tasks", "relevant_documents"}

\* ChatContext(session_id=..., problem_summary="", ...): the declarative
\* constructor raises TypeError for a keyword that is no attribute of the class
ChatContext_kwargs(session_id, kwargs) ==
    IF \E k \in kwargs : k \notin DOMAIN ChatContext_new(session_id)
    THEN Raised(ChatContext_new(session_id))
    ELSE Returned(ChatContext_new(session_id))

Found_any_user(session_id, user_id) == session_id \in DOMAIN dbSessions

\* the select of get_session / of send_message: the row with this id and owner
Found(session_id, user_id) ==
    session_id \in DOMAIN dbSessions /\ dbSessions[session_id].user_id = user_id

\* the ChatSession object a request holds: the row as it was when loaded, with
\* its context relationship
LoadSession(session_id) ==
    [found |-> TRUE, id |-> session_id,
     message_count |-> dbSessions[session_id].message_count,
     context |-> dbContexts[session_id]]

\* the rows of a session, oldest first, as ids
SessionMessageIds(session_id) ==
    LET rows == SelectSeq(dbMessages, LAMBDA m : m.session_id = session_id)
    IN  [i \in 1..Len(rows) |-> rows[i].id]

\* get_session_messages(limit=20): ORDER BY timestamp LIMIT 20
ServiceHistory(session_id) ==
    LET ids == SessionMessageIds(session_id)
    IN  SubSeq(ids, 1, IF Len(ids) < HistoryLimit THEN Len(ids) ELSE HistoryLimit)

\* ORDER BY timestamp DESC LIMIT 20, reversed
RouteHistory(session_id) ==
    LET ids == SessionMessageIds(session_id)
    IN  SubSeq(ids, IF Len(ids) < HistoryLimit THEN 1 ELSE Len(ids) - HistoryLimit + 1, Len(ids))

\* the conversation: the system prompt if there is one, recent_messages[:-1],
\* the user message of the request
Conversation(system, recent_messages, user_message) ==
    (IF system THEN <<0>> ELSE <<>>)
    \o SubSeq(recent_messages, 1, Len(recent_messages) - 1)
    \o <<user_message>>

\* len(text.split())
WordCount(t) ==
    Cardinality({i \in 1..Len(t) : ~IsSpace(t[i]) /\ (i = 1 \/ IsSpace(t[i - 1]))})

\* the JSON events of the route
RouteChunk(e) == [type |-> "chunk", content |-> e.content]

RouteComplete(e, message_id, tokens) ==
    [type |-> "complete", messageId |-> message_id, content |-> e.content, tokens |-> tokens]

RouteError(error) == [type |-> "error", error |-> error]

\* the envelope of the except block
ExceptionEnvelope(kind) ==
    IF kind = "route" THEN RouteError([message |-> "Internal server error"])
    ELSE ErrorEnvelope("Internal server error")

\* the usage of a complete envelope, NoValue when it has none
UsageOf(e) ==
    IF "usage" \in DOMAIN e.metadata THEN e.metadata.usage ELSE NoValue

\* the tokens expression of the route raises when usage is no dict (line 251)
RouteTokensRaise(e) == UsageOf(e) = UsageObject

RouteTokens(e, full_response) ==
    IF UsageOf(e) = UsageDict /\ UsageDict.output_tokens # 0 THEN UsageDict.output_tokens
    ELSE WordCount(full_response)

ChunkCount(envelopes) ==
    Cardinality({i \in 1..Len(envelopes) : envelopes[i].type = "chunk"})

\* the callers of each environment
SingleContents == {Chars("I need to fix the login bug. TODO: write tests."),
                   Chars("We should Test API test.")}

ModelNames == {Chars("gpt-4"), Chars("claude-3"), Chars("llama")}

UnifiedModelIds ==
    {Chars("model_openai"), Chars("model_anthropic"), Chars("model_other"), Chars("model_missing"),
     Chars("model_dangling")}

ServiceRequests(sessions, users, contents, options) ==
    {Request("service", s, u, c, st, o, DefaultModel, "llm_client", <<>>) :
        s \in sessions, u \in users, c \in contents, st \in {"absent", "present"}, o \in options}

RouteRequests(sessions, users, contents, models) ==
    {Request("route", s, u, c, "present", "absent", m, "llm_client", <<>>) :
        s \in sessions, u \in users, c \in contents, m \in models}

MergeRequests(sessions, users, contents, assistants) ==
    {Request("merge", s, u, c, "absent", "enabled", <<>>, "", a) :
        s \in sessions, u \in users, c \in contents, a \in assistants}

UnifiedRequests ==
    {Request("direct", "", 0, <<>>, "absent", "absent", m, "unified", <<>>) : m \in UnifiedModelIds}

DirectRequests ==
    {Request("direct", "", 0, <<>>, "absent", "absent", m, "llm_client", <<>>) : m \in ModelNames}
    \cup UnifiedRequests

RequestsOf(env) ==
    CASE env = "single" ->
             ServiceRequests({"s1", "s2"}, {1}, SingleContents, {"absent", "enabled", "disabled"})
             \cup RouteRequests({"s1", "s2"}, {1}, {Chars("We should Test API test.")}, ModelNames)
             \cup MergeRequests({"s1"}, {1}, {Chars("We should Test API test.")},
                                {Chars("You should test API Test.")})
             \cup DirectRequests
      [] env = "concurrent" ->
             ServiceRequests({"s1"}, {1}, {Chars("We should Test API test.")}, {"enabled"})
             \cup RouteRequests({"s1", "s2"}, {1, 2}, {Chars("We should Test API test.")},
                                {Chars("claude-3")})
             \cup MergeRequests({"s2"}, {2},
                                {Chars("We should Test API test."),
                                 Chars("I need to fix the login bug. TODO: write tests.")},
                                {<<>>})
      [] env = "registry" -> UnifiedRequests
      [] env = "history" ->
             ServiceRequests({"s1"}, {1}, {Chars("We should Test API test.")},
                             {"absent", "enabled"})
             \cup RouteRequests({"s1"}, {1}, {Chars("We should Test API test.")},
                                {Chars("claude-3")})
      [] env = "operations" ->
             ServiceRequests({"s1"}, {1, 2}, {Chars("We should Test API test.")}, {"enabled"})
             \cup RouteRequests({"s1"}, {1, 2}, {Chars("We should Test API test.")},
                                {Chars("claude-3")})
      [] OTHER -> {}

\* the turns an environment runs at a time
SlotsOf(env) == IF env = "concurrent" THEN Turns ELSE {1}

\* the texts the provider of an environment sends
FrameTexts(env) == IF env = "concurrent" THEN {Chars("You should test API Test.")} ELSE ChunkTexts

\* the turn ends: its last envelopes go out
Finish(t, envelopes) ==
    /\ out' = [out EXCEPT ![t] = @ \o envelopes]
    /\ pc' = [pc EXCEPT ![t] = "done"]

\* a request arrives
StartTurn(t) ==
    /\ t \in SlotsOf(scenario)
    /\ pc[t] = "idle"
    /\ \E r \in RequestsOf(scenario) :
          LET unified == r.kind = "direct" /\ r.service = "unified"
              escapes == unified /\ UnifiedResolveRaises(llm_service, r.model)
          IN  /\ unified => ~llm_service.raised
              /\ turn' = [turn EXCEPT ![t] = [IdleTurn EXCEPT !.request = r,
                                                              !.raised = escapes]]
              /\ pc' = [pc EXCEPT ![t] = IF escapes THEN "done"
                                          ELSE IF r.kind = "direct" THEN "stream"
                                          ELSE "session"]
              /\ llm' = [llm EXCEPT ![t] =
                            IF r.kind # "direct" \/ escapes THEN NoStream
                            ELSE IF unified
                                 THEN UnifiedLLMService_chat_completion(llm_service, r.model)
                                 ELSE LLMClient_chat_completion(providers, r.model)]
    /\ UNCHANGED <<fn_call, regVars, scenario, clock, cmVars, providers, dbSessions, dbMessages, dbContexts, out>>

\* ChatService.get_session (lines 184-191), the ownership select of
\* send_message (lines 165-175)
GetSession(t) ==
    /\ pc[t] = "session"
    /\ LET r == turn[t].request
       IN  \E fault \in {"none", "execute"} :
              IF fault = "execute"
              THEN /\ turn' = [turn EXCEPT ![t].raised = (r.kind # "service"),
                                           ![t].http_status = IF r.kind = "route" THEN 500 ELSE 0]
                   /\ Finish(t, IF r.kind = "service" THEN <<ExceptionEnvelope(r.kind)>>
                                ELSE <<>>)
              ELSE IF ~Found(r.session_id, r.user_id)
              THEN /\ turn' = [turn EXCEPT ![t].http_status =
                                              IF r.kind = "route" THEN 404 ELSE 0]
                   /\ Finish(t, IF r.kind = "service"
                                THEN <<ErrorEnvelope("Session not found or access denied")>>
                                ELSE <<>>)
              ELSE /\ turn' = [turn EXCEPT ![t].session = LoadSession(r.session_id)]
                   /\ pc' = [pc EXCEPT ![t] = IF r.kind = "merge" THEN "context"
                                               ELSE "persist_user"]
                   /\ UNCHANGED out
    /\ UNCHANGED <<fn_call, regVars, scenario, clock, cmVars, providers, dbSessions, dbMessages, dbContexts, llm>>

\* add_message (lines 144-172) / the user message of generate (lines 182-190):
\* the row is in the table once the commit went through, also when the
\* refresh after it fails
PersistUser(t) ==
    /\ pc[t] = "persist_user"
    /\ LET r == turn[t].request
           row == [id |-> Len(dbMessages) + 1, session_id |-> r.session_id, role |-> "user",
                   content |-> r.content, timestamp |-> clock, turn |-> t]
       IN  \E fault \in (IF r.kind = "service" THEN {"none", "execute", "commit", "refresh"}
                         ELSE {"none", "commit", "refresh"}) :
              /\ dbMessages' = IF fault \in {"none", "refresh"} THEN Append(dbMessages, row)
                               ELSE dbMessages
              /\ IF fault = "none"
                 THEN /\ turn' = [turn EXCEPT ![t].user_message = row.id]
                      /\ pc' = [pc EXCEPT ![t] = "history"]
                      /\ UNCHANGED out
                 ELSE /\ Finish(t, <<ExceptionEnvelope(r.kind)>>)
                      /\ UNCHANGED turn
    /\ UNCHANGED <<fn_call, regVars, scenario, clock, cmVars, providers, dbSessions, dbContexts, llm>>

\* the history query, the conversation, the settings, get_llm_client and the
\* call of chat_completion (chat_service.py lines 196-244, chat.py lines 192-235)
BuildConversation(t) ==
    /\ pc[t] = "history"
    /\ LET r == turn[t].request
           session == turn[t].session
           service == r.kind = "service"
           model == IF service /\ r.settings = "absent" THEN DefaultModel ELSE r.model
       IN  \E fault \in {"none", "execute"} :
              IF \/ fault = "execute"
                 \/ service /\ session.context # <<>>
                            /\ _build_system_prompt(session.context[1]).raised
                 \/ service /\ SettingsRaise(r.settings)
                 \/ providers = {}
              THEN /\ Finish(t, <<ExceptionEnvelope(r.kind)>>)
                   /\ UNCHANGED <<turn, llm>>
              ELSE /\ turn' = [turn EXCEPT ![t].recent_messages =
                                              IF service THEN ServiceHistory(r.session_id)
                                              ELSE RouteHistory(r.session_id),
                                           ![t].conversation =
                                              Conversation(~service,
                                                  IF service THEN ServiceHistory(r.session_id)
                                                  ELSE RouteHistory(r.session_id),
                                                  turn[t].user_message)]
                   /\ llm' = [llm EXCEPT ![t] = LLMClient_chat_completion(providers, model)]
                   /\ pc' = [pc EXCEPT ![t] = "stream"]
                   /\ UNCHANGED out
    /\ UNCHANGED <<fn_call, regVars, scenario, clock, cmVars, providers, dbSessions, dbMessages, dbContexts>>

\* the adapter resumes and reads the next frame of its upstream; it runs only
\* when its consumer waits for the next envelope
ProviderFrame(t) ==
    /\ pc[t] = "stream"
    /\ ~llm[t].closed
    /\ llm[t].pending = <<>>
    /\ \E kind \in (IF llm[t].exiting THEN ExitKinds ELSE FrameKinds(llm[t].adapter)) :
          \E content \in (IF kind \in {"content", "content_finish"} THEN FrameTexts(scenario)
                          ELSE {<<>>}),
             usage \in FrameUsages(llm[t].adapter, kind) :
             /\ kind \in {"content", "content_finish"} => ChunkCount(out[t]) < MaxChunks
             /\ llm' = [llm EXCEPT ![t] =
                           LET step == AdapterStep(llm[t].adapter, Frame(kind, content, usage))
                           IN  [LlmStream(llm[t].adapter, step.emit, step.closed)
                                   EXCEPT !.exiting = step.exiting]]
    /\ UNCHANGED <<fn_call, regVars, scenario, clock, cmVars, providers, dbSessions, dbMessages, dbContexts, pc,
                   turn, out>>

Accumulate_latest(full_response, content) == content

\* full_response += chunk.content
Accumulate(full_response, content) == full_response \o content

\* the assistant row of a turn
AssistantRow(t) ==
    [id |-> Len(dbMessages) + 1, session_id |-> turn[t].request.session_id,
     role |-> "assistant", content |-> turn[t].full_response, timestamp |-> clock, turn |-> t]

\* the complete envelope the service builds (lines 278-283)
ServiceComplete(e, message_id) ==
    StreamingResponse([type |-> "complete", content |-> e.content, message_id |-> message_id,
                       metadata |-> e.metadata])

\* the body of the async for (chat_service.py lines 245-287, chat.py lines
\* 237-283) for the next envelope of the provider stream; a draining caller
\* takes the envelope as it is
Consume(t) ==
    /\ pc[t] = "stream"
    /\ llm[t].pending # <<>>
    /\ LET r == turn[t].request
           e == Head(llm[t].pending)
           taken == [llm EXCEPT ![t].pending = Tail(@)]
           route == r.kind = "route"
       IN  CASE r.kind = "direct" ->
                  /\ out' = [out EXCEPT ![t] = Append(@, e)]
                  /\ llm' = taken
                  /\ UNCHANGED <<pc, turn, dbMessages, dbSessions>>
             [] r.kind # "direct" /\ e.type = "chunk" ->
                  /\ turn' = [turn EXCEPT ![t].full_response = Accumulate(@, e.content)]
                  /\ out' = [out EXCEPT ![t] = Append(@, IF route THEN RouteChunk(e) ELSE e)]
                  /\ llm' = taken
                  /\ UNCHANGED <<pc, dbMessages, dbSessions>>
             [] r.kind # "direct" /\ e.type = "error" ->
                  /\ Finish(t, <<IF route THEN RouteError(e.error) ELSE e>>)
                  /\ llm' = taken
                  /\ UNCHANGED <<turn, dbMessages, dbSessions>>
             [] r.kind # "direct" /\ e.type = "complete" ->
                  \E fault \in {"none", "commit", "refresh"} :
                     IF (route /\ RouteTokensRaise(e)) \/ fault = "commit"
                     THEN /\ Finish(t, <<ExceptionEnvelope(r.kind)>>)
                          /\ llm' = taken
                          /\ turn' = [turn EXCEPT ![t].complete_received = TRUE]
                          /\ UNCHANGED <<dbMessages, dbSessions>>
                     ELSE /\ dbMessages' = Append(dbMessages, AssistantRow(t))
                          /\ dbSessions' =
                                [dbSessions EXCEPT ![r.session_id].message_count =
                                    IF route THEN turn[t].session.message_count + 2
                                    ELSE Len(turn[t].recent_messages) + 1]
                          /\ IF fault = "refresh"
                             THEN /\ Finish(t, <<ExceptionEnvelope(r.kind)>>)
                                  /\ llm' = taken
                                  /\ turn' = [turn EXCEPT ![t].complete_received = TRUE]
                             ELSE /\ turn' = [turn EXCEPT ![t].assistant_message =
                                                             AssistantRow(t).id,
                                                          ![t].complete_received = TRUE]
                                  /\ IF ~route /\ r.context_options = "enabled"
                                     THEN /\ pc' = [pc EXCEPT ![t] = "context"]
                                          /\ UNCHANGED <<out, llm>>
                                     ELSE /\ Finish(t, <<IF route
                                                         THEN RouteComplete(e, AssistantRow(t).id,
                                                                  RouteTokens(e, turn[t].full_response))
                                                         ELSE ServiceComplete(e, AssistantRow(t).id)>>)
                                          /\ llm' = taken
    /\ UNCHANGED <<fn_call, regVars, scenario, clock, cmVars, providers, dbContexts>>

\* what the commit of the request writes of its context object: the columns
\* the request assigned a new value.  _update_tasks assigns a new list when the
\* loaded one was empty; a loaded list that is not empty it extends in place
\* and assigns it to itself, which the unit of work does not take for a change
Flush(stored, loaded, merged, now) ==
    LET tasks == loaded.tasks = <<>> /\ merged.tasks # <<>>
        current_goal == merged.current_goal # loaded.current_goal
    IN  IF ~tasks /\ ~current_goal THEN stored
        ELSE [stored EXCEPT !.tasks = IF tasks THEN merged.tasks ELSE @,
                            !.current_goal = IF current_goal THEN merged.current_goal ELSE @,
                            !.updated_at = now]

CommitContext_unchecked(stored, loaded, made, merged, now) ==
    IF loaded = <<>> THEN stored \o <<merged>>
    ELSE <<Flush(stored[1], made.context, merged, now)>>

\* the rows of a session in chat_contexts after the commit of a request that
\* loaded the session with the context `loaded`.  Without a loaded context the
\* request inserts the one it made, if the constructor gave it one (lines
\* 357-367, 409-418); session_id is unique=True (models/chat.py line 58), the
\* INSERT of a second row for the session fails.  With a loaded context the
\* commit is the UPDATE of that row
CommitContext(stored, loaded, made, merged, now) ==
    IF loaded = <<>>
    THEN IF made.raised \/ stored # <<>> THEN stored ELSE <<merged>>
    ELSE <<Flush(stored[1], made.context, merged, now)>>

AfterContextUpdate_propagate(failed, e, message_id) ==
    IF failed THEN ExceptionEnvelope("service") ELSE ServiceComplete(e, message_id)

\* what the service yields after _update_context_from_conversation: the except
\* of lines 376-377 swallows a failure of the update, the complete envelope
\* of lines 278-283 follows either way
AfterContextUpdate(failed, e, message_id) == ServiceComplete(e, message_id)

\* _update_context_from_conversation (lines 349-377), then the complete
\* envelope of the service (lines 278-284); every exception of the update is
\* swallowed
UpdateContext(t) ==
    /\ pc[t] = "context"
    /\ LET r == turn[t].request
           session == turn[t].session
           assistant_response == IF r.kind = "merge" THEN r.assistant
                                 ELSE turn[t].full_response
       IN  \E made \in {IF session.context = <<>>
                        THEN ChatContext_kwargs(session.id, ContextKeywords)
                        ELSE Returned(session.context[1])} :
           \E merged \in {update_from_conversation(made.context, r.content,
                                                   assistant_response, clock)} :
           \E fault \in {"none", "commit"} :
           LET failed == \/ made.raised
                         \/ fault = "commit"
                         \/ session.context = <<>> /\ dbContexts[session.id] # <<>>
           IN
              /\ dbContexts' =
                    IF fault = "commit" THEN dbContexts
                    ELSE [dbContexts EXCEPT ![session.id] =
                             CommitContext(@, session.context, made, merged, clock)]
              /\ turn' = IF failed
                         THEN [turn EXCEPT ![t].extractor = ~made.raised]
                         ELSE [turn EXCEPT ![t].extractor = TRUE,
                                           ![t].inserted =
                                              Descriptions(merged.tasks)
                                                  \ Descriptions(made.context.tasks)]
              /\ IF r.kind = "merge"
                 THEN Finish(t, <<>>) /\ UNCHANGED llm
                 ELSE /\ Finish(t, <<AfterContextUpdate(failed,
                                                        Head(llm[t].pending),
                                                        turn[t].assistant_message)>>)
                      /\ llm' = [llm EXCEPT ![t].pending = Tail(@)]
    /\ UNCHANGED <<fn_call, regVars, scenario, clock, cmVars, providers, dbSessions, dbMessages>>

\* the provider stream is exhausted: the async for ends, and with it the
\* generator of the turn
StreamEnd(t) ==
    /\ pc[t] = "stream"
    /\ llm[t].pending = <<>>
    /\ llm[t].closed
    /\ pc' = [pc EXCEPT ![t] = "done"]
    /\ UNCHANGED <<fn_call, regVars, scenario, clock, cmVars, providers, dbSessions, dbMessages, dbContexts, turn,
                   llm, out>>

OnDisconnect_save_partial(rows, t) == Append(rows, AssistantRow(t))

\* table chat_messages after the generator of a turn was closed: the
\* GeneratorExit or CancelledError raised at the yield or await the generator
\* stands at is no Exception; the handlers of chat_service.py line 289 and of
\* chat.py line 285 do not run, and there is no finally
OnDisconnect(rows, t) == rows

\* the client of a streaming turn goes away: the response closes the
\* generator where it stands, and the generator the provider stream with it
Disconnect(t) ==
    /\ turn[t].request.kind \in {"service", "route"}
    /\ pc[t] \in {"persist_user", "history", "stream", "context"}
    /\ dbMessages' = OnDisconnect(dbMessages, t)
    /\ turn' = [turn EXCEPT ![t].cancelled = TRUE]
    /\ pc' = [pc EXCEPT ![t] = "done"]
    /\ llm' = [llm EXCEPT ![t].closed = TRUE]
    /\ UNCHANGED <<fn_call, regVars, scenario, clock, cmVars, providers, dbSessions, dbContexts, out>>

AllProviders == {"openai", "anthropic", "custom"}

InitIdle ==
    /\ clock = 0
    /\ cm_context = ChatContext_new("s1")
    /\ cm_calls = 0
    /\ cm_last = NoCall
    /\ InitTurns

\* one request at a time
Init ==
    /\ scenario = "single"
    /\ InitIdle
    /\ providers \in {AllProviders, {"anthropic"}}
    /\ \E rows \in {{}, {"s1"}} : InitDb(rows)
    /\ InitRegistry({LlmsYaml(UnifiedProviders, Chars("model_openai"))}, {EnvNames})

\* two requests at a time
InitConcurrent ==
    /\ scenario = "concurrent"
    /\ InitIdle
    /\ providers = AllProviders
    /\ InitDb({"s2"})
    /\ InitRegistry({LlmsYaml(UnifiedProviders, Chars("model_openai"))}, {EnvNames})

Next ==
    \/ Tick
    \/ \E t \in Turns :
          \/ StartTurn(t)
          \/ GetSession(t)
          \/ PersistUser(t)
          \/ BuildConversation(t)
          \/ ProviderFrame(t)
          \/ Consume(t)
          \/ UpdateContext(t)
          \/ StreamEnd(t)

Spec == Init /\ [][Next]_vars

NextDisconnect ==
    \/ Tick
    \/ \E t \in Turns :
          \/ StartTurn(t)
          \/ GetSession(t)
          \/ PersistUser(t)
          \/ BuildConversation(t)
          \/ ProviderFrame(t)
          \/ Consume(t)
          \/ UpdateContext(t)
          \/ StreamEnd(t)
          \/ Disconnect(t)

\* one request at a time, of a client that may go away
SpecDisconnect == Init /\ [][NextDisconnect]_vars

\* the model endpoints and the completions of the unified service, for each
\* configuration file and each set of credentials
InitModels ==
    /\ scenario = "registry"
    /\ InitIdle
    /\ providers = AllProviders
    /\ InitDb({})
    /\ InitRegistry(ConfigFiles, SUBSET EnvNames)

\* get_available_models
GetAvailableModels ==
    /\ ~llm_service.raised
    /\ available_models' = Answer(get_available_models(llm_service, environ))
    /\ UNCHANGED <<scenario, clock, cmVars, providers, dbSessions, dbMessages, dbContexts, pc,
                   turn, llm, out, environ, llm_service, default_model_id, fn_call>>

\* get_default_model_id
GetDefaultModelId ==
    /\ ~llm_service.raised
    /\ default_model_id' = Answer(get_default_model_id(llm_service))
    /\ UNCHANGED <<scenario, clock, cmVars, providers, dbSessions, dbMessages, dbContexts, pc,
                   turn, llm, out, environ, llm_service, available_models, fn_call>>

NextModels ==
    \/ GetAvailableModels
    \/ GetDefaultModelId
    \/ \E t \in Turns :
          \/ StartTurn(t)
          \/ ProviderFrame(t)
          \/ Consume(t)
          \/ StreamEnd(t)

SpecModels == InitModels /\ [][NextModels]_vars

SpecConcurrent == InitConcurrent /\ [][Next]_vars

\* the messages earlier turns left in a session, user and assistant in turn
PriorMessages(session_id, n) ==
    [i \in 1..n |-> [id |-> i, session_id |-> session_id,
                      role |-> IF i % 2 = 1 THEN "user" ELSE "assistant",
                      content |-> <<"m">>, timestamp |-> 0, turn |-> 0]]

\* the numbers of earlier messages: none, one, the history window less one,
\* the history window
PriorCounts == {0, 1, HistoryLimit - 1, HistoryLimit}

\* the tables of a session s1 with earlier messages
InitDbHistory ==
    \E n \in PriorCounts :
       /\ dbSessions = [s \in SessionIds |->
                           [user_id |-> IF s = "s1" THEN 1 ELSE 2,
                            message_count |-> IF s = "s1" THEN n ELSE 0,
                            title |-> NewChat]]
       /\ dbMessages = PriorMessages("s1", n)
       /\ dbContexts = [s \in SessionIds |-> <<>>]

\* one request on a session with earlier messages
InitHistory ==
    /\ scenario = "history"
    /\ InitIdle
    /\ providers = AllProviders
    /\ InitDbHistory
    /\ InitRegistry({LlmsYaml(UnifiedProviders, Chars("model_openai"))}, {EnvNames})

SpecHistory == InitHistory /\ [][Next]_vars

\* ---------------------------------------------------------------------------
\* The session operations outside a turn: ChatService and the routes of
\* api/chat.py, called by the owner of a session or by another user
\* ---------------------------------------------------------------------------

Users == {1, 2}

\* what a caller gets from an operation: what it returned or raised, and the
\* messages and the context row that came with it
OpCall(fn, via, session_id, user_id, answer, messages, context) ==
    [fn |-> fn, via |-> via, session_id |-> session_id, user_id |-> user_id,
     answer |-> answer, messages |-> messages, context |-> context]

\* raise HTTPException(status_code=404, detail=...)
HTTP404(detail) == <<"HTTP 404", detail>>

\* the tables of a session s1 with two messages, with or without a context row
InitDbOperations ==
    \E rows \in {{}, {"s1"}} :
       /\ dbSessions = [s \in SessionIds |->
                           [user_id |-> IF s = "s1" THEN 1 ELSE 2,
                            message_count |-> IF s = "s1" THEN 2 ELSE 0,
                            title |-> NewChat]]
       /\ dbMessages = PriorMessages("s1", 2)
       /\ dbContexts = [s \in SessionIds |->
                           IF s \in rows
                           THEN <<[ChatContext_new(s) EXCEPT !.current_goal = Chars("fix the login bug")]>>
                           ELSE <<>>]

InitOperations ==
    /\ scenario = "operations"
    /\ InitIdle
    /\ providers = AllProviders
    /\ InitDbOperations
    /\ InitRegistry({LlmsYaml(UnifiedProviders, Chars("model_openai"))}, {EnvNames})

\* ChatService.get_session (lines 48-67): the session with its messages and
\* its context; get_chat_session (chat.py lines 102-155): the session with
\* its messages
GetSessionOp ==
    /\ fn_call = NoFnCall
    /\ \E via \in {"service", "route"}, session_id \in SessionIds, user_id \in Users :
          fn_call' =
             IF ~Found(session_id, user_id)
             THEN OpCall("get_session", via, session_id, user_id,
                         IF via = "service" THEN None ELSE HTTP404("Session not found"),
                         <<>>, <<>>)
             ELSE OpCall("get_session", via, session_id, user_id, <<"session">>,
                         SessionMessageIds(session_id),
                         IF via = "service" THEN dbContexts[session_id] ELSE <<>>)
    /\ UNCHANGED <<scenario, clock, cmVars, providers, dbSessions, dbMessages, dbContexts, pc,
                   turn, llm, out, regVars>>

SessionTitles == {Chars("Renamed")}

\* ChatService.update_session (lines 85-104)
UpdateSessionOp ==
    /\ fn_call = NoFnCall
    /\ \E session_id \in SessionIds, user_id \in Users, title \in SessionTitles :
          IF ~Found(session_id, user_id)
          THEN /\ fn_call' = OpCall("update_session", "service", session_id, user_id, None,
                                    <<>>, <<>>)
               /\ UNCHANGED dbSessions
          ELSE /\ dbSessions' = [dbSessions EXCEPT ![session_id].title = title]
               /\ fn_call' = OpCall("update_session", "service", session_id, user_id, <<"session">>,
                                    SessionMessageIds(session_id), dbContexts[session_id])
    /\ UNCHANGED <<scenario, clock, cmVars, providers, dbMessages, dbContexts, pc,
                   turn, llm, out, regVars>>

\* ChatService.delete_session (lines 106-119), delete_chat_session (chat.py
\* lines 390-411): the messages and the context go with the session (cascade
\* "all, delete-orphan").  The owner deletes while no turn is under way
DeleteSessionOp ==
    /\ fn_call = NoFnCall
    /\ \E via \in {"service", "route"}, session_id \in SessionIds, user_id \in Users :
          IF ~Found(session_id, user_id)
          THEN /\ fn_call' = OpCall("delete_session", via, session_id, user_id,
                                    IF via = "service" THEN <<"False">>
                                    ELSE HTTP404("Session not found"),
                                    <<>>, <<>>)
               /\ UNCHANGED <<dbSessions, dbMessages, dbContexts>>
          ELSE /\ \A t \in Turns : pc[t] \in {"idle", "done"}
               /\ dbSessions' = [s \in DOMAIN dbSessions \ {session_id} |-> dbSessions[s]]
               /\ dbMessages' = SelectSeq(dbMessages, LAMBDA m : m.session_id # session_id)
               /\ dbContexts' = [dbContexts EXCEPT ![session_id] = <<>>]
               /\ fn_call' = OpCall("delete_session", via, session_id, user_id,
                                    IF via = "service" THEN <<"True">> ELSE <<"deleted">>,
                                    <<>>, <<>>)
    /\ UNCHANGED <<scenario, clock, cmVars, providers, pc, turn, llm, out, regVars>>

\* ChatService.get_session_messages (lines 121-142): the rows of the session
\* joined with a session of this user; no such session, no row
GetSessionMessagesOp ==
    /\ fn_call = NoFnCall
    /\ \E session_id \in SessionIds, user_id \in Users :
          fn_call' = OpCall("get_session_messages", "service", session_id, user_id, <<"list">>,
                            IF Found(session_id, user_id) THEN SessionMessageIds(session_id)
                            ELSE <<>>,
                            <<>>)
    /\ UNCHANGED <<scenario, clock, cmVars, providers, dbSessions, dbMessages, dbContexts, pc,
                   turn, llm, out, regVars>>

\* ChatService.add_message (lines 144-172) called on its own
AddMessageOp ==
    /\ fn_call = NoFnCall
    /\ \E session_id \in SessionIds, user_id \in Users :
          IF ~Found(session_id, user_id)
          THEN /\ fn_call' = OpCall("add_message", "service", session_id, user_id, <<"ValueError">>,
                                    <<>>, <<>>)
               /\ UNCHANGED dbMessages
          ELSE /\ dbMessages' = Append(dbMessages,
                                       [id |-> Len(dbMessages) + 1, session_id |-> session_id,
                                        role |-> "user", content |-> <<"m">>,
                                        timestamp |-> clock, turn |-> 0])
               /\ fn_call' = OpCall("add_message", "service", session_id, user_id, <<"message">>,
                                    <<Len(dbMessages) + 1>>, <<>>)
    /\ UNCHANGED <<scenario, clock, cmVars, providers, dbSessions, dbContexts, pc,
                   turn, llm, out, regVars>>

\* ChatService.get_session_context (lines 379-395): the context joined with a
\* session of this user; get_session_context of chat.py (lines 305-340)
GetSessionContextOp ==
    /\ fn_call = NoFnCall
    /\ \E via \in {"service", "route"}, session_id \in SessionIds, user_id \in Users :
          fn_call' =
             IF ~Found(session_id, user_id)
             THEN OpCall("get_session_context", via, session_id, user_id,
                         IF via = "service" THEN None ELSE HTTP404("Session not found"),
                         <<>>, <<>>)
             ELSE IF dbContexts[session_id] = <<>>
             THEN OpCall("get_session_context", via, session_id, user_id,
                         IF via = "service" THEN None ELSE HTTP404("Context not found"),
                         <<>>, <<>>)
             ELSE OpCall("get_session_context", via, session_id, user_id, <<"context">>,
                         <<>>, dbContexts[session_id])
    /\ UNCHANGED <<scenario, clock, cmVars, providers, dbSessions, dbMessages, dbContexts, pc,
                   turn, llm, out, regVars>>

\* the update of a manual context edit
ContextUpdates == {Chars("ship the fix")}

\* ChatService.update_session_context (lines 397-429): without a context row
\* the owner's call ends in the TypeError of ChatContext(problem_summary="");
\* update_session_context of chat.py (lines 342-388) creates no context
UpdateSessionContextOp ==
    /\ fn_call = NoFnCall
    /\ \E via \in {"service", "route"}, session_id \in SessionIds, user_id \in Users,
          current_goal \in ContextUpdates :
          IF ~Found(session_id, user_id)
          THEN /\ fn_call' = OpCall("update_session_context", via, session_id, user_id,
                                    IF via = "service" THEN None
                                    ELSE HTTP404("Session not found"),
                                    <<>>, <<>>)
               /\ UNCHANGED dbContexts
          ELSE IF dbContexts[session_id] = <<>>
          THEN LET made == ChatContext_kwargs(session_id, ContextKeywords)
                   edited == [made.context EXCEPT !.current_goal = current_goal,
                                                  !.updated_at = clock]
               IN  /\ dbContexts' =
                         IF via = "route" THEN dbContexts
                         ELSE [dbContexts EXCEPT ![session_id] =
                                  CommitContext(@, <<>>, made, edited, clock)]
                   /\ fn_call' = OpCall("update_session_context", via, session_id, user_id,
                                        IF via = "route" THEN HTTP404("Context not found")
                                        ELSE IF made.raised THEN <<"TypeError">>
                                        ELSE <<"context">>,
                                        <<>>,
                                        IF via = "route" \/ made.raised THEN <<>>
                                        ELSE dbContexts'[session_id])
          ELSE /\ dbContexts' = [dbContexts EXCEPT ![session_id] =
                                    <<[@[1] EXCEPT !.current_goal = current_goal,
                                                   !.updated_at = clock]>>]
               /\ fn_call' = OpCall("update_session_context", via, session_id, user_id,
                                    <<"context">>, <<>>, dbContexts'[session_id])
    /\ UNCHANGED <<scenario, clock, cmVars, providers, dbSessions, dbMessages, pc,
                   turn, llm, out, regVars>>

NextOperations ==
    \/ Tick
    \/ GetSessionOp
    \/ UpdateSessionOp
    \/ DeleteSessionOp
    \/ GetSessionMessagesOp
    \/ AddMessageOp
    \/ GetSessionContextOp
    \/ UpdateSessionContextOp
    \/ \E t \in Turns :
          \/ StartTurn(t)
          \/ GetSession(t)
          \/ PersistUser(t)
          \/ BuildConversation(t)
          \/ ProviderFrame(t)
          \/ Consume(t)
          \/ UpdateContext(t)
          \/ StreamEnd(t)

\* one turn and one operation on the sessions of two users
SpecOperations == InitOperations /\ [][NextOperations]_vars

\* ---------------------------------------------------------------------------
\* The helpers called on their own, as the unit tests call them
\* ---------------------------------------------------------------------------

\* the words the captured spans are made of
SpanWords ==
    {Chars("urgent"), Chars("ASAP"), Chars("should"), Chars("need"), Chars("soon"),
     Chars("later"), Chars("could"), Chars("review")}

\* spans of one word and of two
PrioritySpans ==
    SpanWords \cup {w1 \o <<" ">> \o w2 : w1 \in SpanWords, w2 \in SpanWords}

\* the lines of a list: the marker, then the trailing text
ListLines ==
    {[marker |-> Chars("1. "), trail |-> Chars("write tests")],
     [marker |-> Chars("2. "), trail |-> Chars("Fix")],
     [marker |-> Chars("- "), trail |-> Chars("deploy it now")],
     [marker |-> Chars("* "), trail |-> Chars("ok")],
     [marker |-> Chars("3. "), trail |-> Chars("update the docs")]}

MaxLines == 2

ListTexts == UNION {[1..n -> ListLines] : n \in 1..MaxLines}

\* "\n".join(lines)
RECURSIVE JoinLines(_)
JoinLines(lines) ==
    IF lines = <<>> THEN <<>>
    ELSE Head(lines).marker \o Head(lines).trail
         \o (IF Len(lines) > 1 THEN <<"\n">> \o JoinLines(Tail(lines)) ELSE <<>>)

\* the model names a provider is asked for
RoutedNames ==
    {Chars("gpt-4"), Chars("text-davinci-003"), Chars("davinci"), Chars("curie-1"),
     Chars("babbage"), Chars("ada"), Chars("claude-3"), Chars("claude"), Chars("gpt4"),
     Chars("llama"), Chars("custom-model")}

\* ContextManager._determine_priority(text)
DeterminePriority ==
    /\ fn_call = NoFnCall
    /\ \E text \in PrioritySpans :
          fn_call' = [fn |-> "_determine_priority", text |-> text,
                      result |-> _determine_priority(text)]
    /\ UNCHANGED <<scenario, clock, cmVars, providers, dbSessions, dbMessages, dbContexts, pc,
                   turn, llm, out, regVars>>

\* ContextManager._extract_tasks(text)
ExtractTasks ==
    /\ fn_call = NoFnCall
    /\ \E lines \in ListTexts :
          fn_call' = [fn |-> "_extract_tasks", lines |-> lines,
                      result |-> _extract_tasks(JoinLines(lines))]
    /\ UNCHANGED <<scenario, clock, cmVars, providers, dbSessions, dbMessages, dbContexts, pc,
                   turn, llm, out, regVars>>

\* LLMClient.get_provider_for_model(model)
GetProviderForModel ==
    /\ fn_call = NoFnCall
    /\ \E model \in RoutedNames :
          fn_call' = [fn |-> "get_provider_for_model", model |-> model,
                      result |-> get_provider_for_model(providers, model)]
    /\ UNCHANGED <<scenario, clock, cmVars, providers, dbSessions, dbMessages, dbContexts, pc,
                   turn, llm, out, regVars>>

\* a client with each set of registered providers; each helper call is made
\* on a fresh ContextManager or client
InitCalls ==
    /\ scenario = "calls"
    /\ InitIdle
    /\ providers \in SUBSET AllProviders
    /\ InitDb({})
    /\ InitRegistry({LlmsYaml(UnifiedProviders, Chars("model_openai"))}, {EnvNames})

NextCalls == DeterminePriority \/ ExtractTasks \/ GetProviderForModel

SpecCalls == InitCalls /\ [][NextCalls]_vars

\* ---------------------------------------------------------------------------
\* Properties of the turns
\* ---------------------------------------------------------------------------

StreamKinds == {"service", "route"}

Processing == {"persist_user", "history", "stream", "context"}

Last(s) == s[Len(s)]

\* the turn was a stream, and the stream has run to its end
Streamed(t) ==
    /\ turn[t].request.kind \in StreamKinds
    /\ pc[t] = "done"
    /\ turn[t].http_status = 0
    /\ ~turn[t].raised

TerminalCount(envelopes) ==
    Cardinality({i \in 1..Len(envelopes) : IsTerminal(envelopes[i])})

\* what the generator of the turn has yielded so far
Yielded(t) ==
    IF turn[t].request.kind = "direct" THEN out[t] \o llm[t].pending ELSE out[t]

RECURSIVE ChunkText(_)
ChunkText(envelopes) ==
    IF envelopes = <<>> THEN <<>>
    ELSE (IF Head(envelopes).type = "chunk" THEN Head(envelopes).content ELSE <<>>)
         \o ChunkText(Tail(envelopes))

\* the assistant rows a turn has in the table
AssistantRows(t) ==
    {i \in 1..Len(dbMessages) : dbMessages[i].role = "assistant" /\ dbMessages[i].turn = t}

Completed(t) ==
    /\ turn[t].request.kind \in StreamKinds
    /\ out[t] # <<>>
    /\ Last(out[t]).type = "complete"

\* the message identifier an envelope delivers, 0 when it delivers none
CarriedId(e) ==
    IF "messageId" \in DOMAIN e THEN e.messageId
    ELSE IF "message_id" \in DOMAIN e THEN e.message_id ELSE 0

StoredDescriptions(session_id) ==
    IF dbContexts[session_id] = <<>> THEN {} ELSE Descriptions(dbContexts[session_id][1].tasks)

\* C1: every stream of stream_chat_response or of the route's generator that
\* has run to its end has emitted exactly one terminal envelope, and as its
\* last envelope
C1_EndsWithOneTerminal ==
    \A t \in Turns :
       Streamed(t) => /\ out[t] # <<>>
                      /\ IsTerminal(Last(out[t]))
                      /\ TerminalCount(out[t]) = 1

\* C2: in the stream of an adapter, of a chat_completion or of
\* stream_chat_response, a terminal envelope is the last envelope: there is at
\* most one and nothing follows it
C2_TerminalIsLast ==
    \A t \in Turns :
       \A i \in 1..Len(Yielded(t)) : IsTerminal(Yielded(t)[i]) => i = Len(Yielded(t))

\* C3: the assistant message persisted for a completed turn is the
\* concatenation, in emission order, of the chunks forwarded during the turn
C3_PersistedTextIsChunks ==
    \A t \in Turns :
       Completed(t) => /\ AssistantRows(t) # {}
                       /\ \A i \in AssistantRows(t) : dbMessages[i].content = ChunkText(out[t])

C3_Witness ==
    \E t \in Turns :
       /\ Completed(t)
       /\ ChunkCount(out[t]) >= 2
       /\ out[t][1].content # out[t][2].content
       /\ \E i \in AssistantRows(t) : Len(dbMessages[i].content) > Len(out[t][1].content)

\* C4: when the stream of a turn ends with an error envelope, no assistant
\* message has been persisted for the turn
C4_ErrorMeansNotPersisted ==
    \A t \in Turns :
       (/\ turn[t].request.kind \in StreamKinds
        /\ out[t] # <<>>
        /\ Last(out[t]).type = "error") => AssistantRows(t) = {}

\* C5: a complete envelope of a turn comes after the assistant message of the
\* turn is persisted, and carries the identifier of that message
C5_CompleteCarriesPersistedId ==
    \A t \in Turns :
       \A i \in 1..Len(out[t]) :
          (turn[t].request.kind \in StreamKinds /\ out[t][i].type = "complete")
             => \E j \in AssistantRows(t) : CarriedId(out[t][i]) = dbMessages[j].id

C8_TurnsSerializedPerSession ==
    \A t1, t2 \in Turns :
       (/\ t1 # t2
        /\ turn[t1].request.kind \in StreamKinds /\ turn[t2].request.kind \in StreamKinds
        /\ turn[t1].request.session_id = turn[t2].request.session_id)
          => ~(pc[t1] \in Processing /\ pc[t2] \in Processing)

\* C12: a failure of the context update after a turn does not fail the turn:
\* a turn of the service whose provider reported complete and whose assistant
\* message was persisted and refreshed ends with a complete envelope.
C12_UpdateFailureStillCompletes ==
    \A t \in Turns :
       (/\ turn[t].request.kind = "service"
        /\ pc[t] = "done"
        /\ turn[t].assistant_message # 0) => Last(out[t]).type = "complete"

\* a turn with context updates enabled completed although its update created
\* no context
C12_Witness ==
    \E t \in Turns :
       /\ turn[t].request.kind = "service"
       /\ turn[t].request.context_options = "enabled"
       /\ pc[t] = "done"
       /\ turn[t].assistant_message # 0
       /\ dbContexts[turn[t].request.session_id] = <<>>
       /\ Last(out[t]).type = "complete"

\* C13: every completed turn has called the extractor with its user text and
\* its accumulated assistant text, whatever the context options of the request
C13_CompletedTurnExtracts ==
    \A t \in Turns : Completed(t) => turn[t].extractor

\* ---------------------------------------------------------------------------
\* Properties of the model selection
\* ---------------------------------------------------------------------------

\* the model id is in no table the selection of the request looks it up in:
\* the models of the unified service, the prefixes of get_provider_for_model
UnknownModel(r) ==
    IF r.service = "unified" THEN r.model \notin DOMAIN llm_service.models
    ELSE ~\E p \in OpenAIPrefixes \cup AnthropicPrefixes : str_startswith(r.model, p)

\* the turn has passed the selection of its provider
Selected(t) ==
    /\ pc[t] \in {"stream", "done"}
    /\ \/ turn[t].request.kind = "direct" /\ ~turn[t].raised
       \/ turn[t].request.kind \in StreamKinds /\ turn[t].recent_messages # <<>>

\* the model the selection of a turn is made for
SelectedModel(t) ==
    IF turn[t].request.kind = "service" THEN DefaultModel ELSE turn[t].request.model

\* C14: a turn whose request names a model id that is in no table of the
\* selection has no provider adapter selected
C14_UnknownModelNotFound ==
    \A t \in Turns :
       (/\ Selected(t)
        /\ turn[t].request.kind \in {"route", "direct"}
        /\ UnknownModel(turn[t].request)) => llm[t].adapter = NoProvider

\* a completion of the unified service for a model of the registry
RegisteredCompletion(t) ==
    /\ turn[t].request.kind = "direct"
    /\ turn[t].request.service = "unified"
    /\ pc[t] # "idle"
    /\ ~llm_service.raised
    /\ turn[t].request.model \in DOMAIN llm_service.models
    /\ llm_service.models[turn[t].request.model] \in DOMAIN llm_service.providers

\* C15: a completion for a registered model whose provider has no credential
\* in the environment opens no stream to the provider backend
C15_NoCredentialNoRequest ==
    \A t \in Turns :
       (/\ RegisteredCompletion(t)
        /\ ~ModelAvailable(llm_service, environ, turn[t].request.model))
          => llm[t].adapter = NoProvider

\* C16: the service is constructed from each configuration file, with or
\* without trusted providers, and get_available_models returns the registered
\* models whose provider is usable, in registration order
C16_ListingIsUsableModels ==
    /\ ~llm_service.raised
    /\ available_models.called =>
          available_models.value =
             SelectSeq(llm_service.model_order,
                       LAMBDA m : ModelAvailable(llm_service, environ, m))

\* C17: the default model id the service answers is the configured one when
\* its provider is available, and else the first available model in
\* registration order
C17_DefaultFallsBack ==
    (default_model_id.called /\ ~llm_service.raised) =>
       LET listing == get_available_models(llm_service, environ)
       IN  IF ModelAvailable(llm_service, environ, llm_service.default_model)
           THEN default_model_id.value = llm_service.default_model
           ELSE listing # <<>> => default_model_id.value = Head(listing)

\* the selection of LLMClient.chat_completion finds no provider for the turn
NoProviderFor(t) ==
    /\ Selected(t)
    /\ turn[t].request.service = "llm_client"
    /\ get_provider_for_model(providers, SelectedModel(t)) = NoProvider

\* C18: when no provider is selected for the model of a turn, all the turn
\* yields is one error envelope saying that no provider is available for the
\* model, and no adapter is called
C18_NoProviderOneError ==
    \A t \in Turns :
       NoProviderFor(t) =>
          /\ llm[t].adapter = NoProvider
          /\ Len(out[t] \o llm[t].pending) = 1
          /\ (out[t] \o llm[t].pending)[1].type = "error"
          /\ (out[t] \o llm[t].pending)[1].error.message = "No provider available for model"

C18_Witness ==
    \E t \in Turns :
       /\ NoProviderFor(t)
       /\ turn[t].request.kind = "route"
       /\ pc[t] = "done"
       /\ out[t] = <<RouteError([message |-> "No provider available for model"])>>

\* C19: no exception escapes a chat_completion call
C19_NoExceptionEscapes ==
    \A t \in Turns : turn[t].request.kind = "direct" => ~turn[t].raised

\* C20: a turn for a session that does not exist or belongs to another user
\* yields no envelope reporting it, persists no message and calls no provider
C20_MissingSessionRejectedSynchronously ==
    \A t \in Turns :
       (/\ turn[t].request.kind \in StreamKinds
        /\ pc[t] = "done"
        /\ ~Found(turn[t].request.session_id, turn[t].request.user_id))
          => /\ \A i \in 1..Len(out[t]) :
                   out[t][i] # ErrorEnvelope("Session not found or access denied")
             /\ \A i \in 1..Len(dbMessages) : dbMessages[i].turn # t
             /\ llm[t] = NoStream

\* ---------------------------------------------------------------------------
\* Properties of the helpers
\* ---------------------------------------------------------------------------

\* the text contains one of the keywords, whatever the case
HasKeyword(text, keywords) ==
    \E kw \in keywords : str_contains(str_lower(text), Chars(kw))

\* C25: the priority of a span is high if it contains a high keyword, else low
\* if it contains a low keyword, else medium
C25_PriorityClassification ==
    fn_call.fn = "_determine_priority" =>
       fn_call.result =
          IF HasKeyword(fn_call.text,
                        {"urgent", "critical", "important", "asap", "priority", "immediately"})
          THEN "high"
          ELSE IF HasKeyword(fn_call.text, {"might", "could", "eventually", "later", "someday"})
               THEN "low"
               ELSE "medium"

\* the descriptions of the tasks a list pattern gave
ListDescriptions(tasks) ==
    {tasks[i].description : i \in {j \in 1..Len(tasks) :
                                      tasks[j].source \in {"numbered_list", "bullet_list"}}}

\* C26: the list tasks of a text of list lines are the trailing texts longer
\* than 5 characters of its lines, one task per such line
C26_ListExtractionPerLine ==
    fn_call.fn = "_extract_tasks" =>
       ListDescriptions(fn_call.result) =
          {fn_call.lines[i].trail : i \in {j \in 1..Len(fn_call.lines) :
                                              Len(fn_call.lines[j].trail) > 5}}

\* C27: names with an openai prefix go to the openai provider, names starting
\* with claude- to the anthropic provider, every other name to the custom
\* provider if registered, else to the configured default, else to the first
\* registered provider
C27_RoutesByPrefix ==
    fn_call.fn = "get_provider_for_model" =>
       fn_call.result =
          IF \E p \in {"gpt-", "text-", "davinci", "curie", "babbage", "ada"} :
                str_startswith(fn_call.model, Chars(p))
          THEN (IF "openai" \in providers THEN "openai" ELSE NoProvider)
          ELSE IF str_startswith(fn_call.model, Chars("claude-"))
               THEN (IF "anthropic" \in providers THEN "anthropic" ELSE NoProvider)
               ELSE IF "custom" \in providers THEN "custom"
                    ELSE IF CHAT_DEFAULT_PROVIDER \in providers THEN CHAT_DEFAULT_PROVIDER
                         ELSE IF "anthropic" \in providers THEN "anthropic" ELSE NoProvider

C27_Witness ==
    /\ fn_call.fn = "get_provider_for_model"
    /\ fn_call.model = Chars("llama")
    /\ providers = {"anthropic"}
    /\ fn_call.result = "anthropic"

\* ---------------------------------------------------------------------------
\* Properties of the persisted rows
\* ---------------------------------------------------------------------------

\* the rows of table chat_messages that belong to a session
SessionRows(session_id) ==
    {i \in 1..Len(dbMessages) : dbMessages[i].session_id = session_id}

\* C28: when no turn is in progress, the message_count of every session is the
\* number of messages persisted for it
C28_MessageCountIsPersisted ==
    (\A t \in Turns : pc[t] \in {"idle", "done"}) =>
       \A s \in SessionIds : dbSessions[s].message_count = Cardinality(SessionRows(s))

\* the rows a session had before the user message of the turn, oldest first
EarlierRows(t) ==
    LET ids == SessionMessageIds(turn[t].request.session_id)
    IN  SelectSeq(ids, LAMBDA i : i < turn[t].user_message)

\* the entries of a conversation between the system prompt and the last one
HistoryPart(conversation) ==
    SubSeq(conversation, IF conversation[1] = 0 THEN 2 ELSE 1, Len(conversation) - 1)

\* C29: the conversation handed to the provider is an optional system prompt,
\* then the most recent earlier messages of the session in their order, all
\* of them when they are fewer than the history window, then the user message
\* of the turn, once
C29_ConversationIsRecentHistory ==
    \A t \in Turns :
       turn[t].conversation # <<>> =>
          LET conversation == turn[t].conversation
              history == HistoryPart(conversation)
              earlier == EarlierRows(t)
          IN  /\ conversation[Len(conversation)] = turn[t].user_message
              /\ \A i \in 1..(Len(conversation) - 1) : conversation[i] # turn[t].user_message
              /\ Len(history) <= HistoryLimit
              /\ Len(history) <= Len(earlier)
              /\ history = SubSeq(earlier, Len(earlier) - Len(history) + 1, Len(earlier))
              /\ Len(earlier) < HistoryLimit - 1 => history = earlier

\* the roles of the rows a turn has added, in the order of their insertion
TurnRoles(t) ==
    LET rows == SelectSeq(dbMessages, LAMBDA m : m.turn = t)
    IN  [i \in 1..Len(rows) |-> rows[i].role]

\* C30: the user message of a turn is in the table when the provider is
\* contacted; a turn that added its user message and ended in error has added
\* this one row, a completed turn the user row and then one assistant row
C30_FailedTurnKeepsUserMessage ==
    \A t \in Turns :
       turn[t].request.kind \in StreamKinds =>
          /\ llm[t] # NoStream => (TurnRoles(t) # <<>> /\ TurnRoles(t)[1] = "user")
          /\ (/\ pc[t] = "done"
              /\ turn[t].user_message # 0
              /\ out[t] # <<>>
              /\ Last(out[t]).type = "error") => TurnRoles(t) = <<"user">>
          /\ Completed(t) => TurnRoles(t) = <<"user", "assistant">>

\* ---------------------------------------------------------------------------
\* Properties of the context rows
\* ---------------------------------------------------------------------------

\* C23: the ids of the tasks of a context differ from one another, after any
\* sequence of extraction merges and of edits that shorten the task list
C23_TaskIdsUnique ==
    \A i, j \in 1..Len(cm_context.tasks) :
       i # j => cm_context.tasks[i].id # cm_context.tasks[j].id

\* ---------------------------------------------------------------------------
\* Properties of the session operations
\* ---------------------------------------------------------------------------

\* the session exists and belongs to somebody else
NotOwner(session_id, user_id) ==
    session_id \in DOMAIN dbSessions /\ dbSessions[session_id].user_id # user_id

\* the answers by which an operation says that the caller has no such
\* session: None, False, ValueError, HTTP 404 "Session not found", and the
\* empty list of get_session_messages
Denied(call) ==
    \/ call.answer \in {None, <<"False">>, <<"ValueError">>, HTTP404("Session not found")}
    \/ call.fn = "get_session_messages" /\ call.messages = <<>>

\* what a turn of a caller without the session has delivered: nothing, the
\* error of the service, or the failure of the select itself
RefusedTurn(t) ==
    /\ pc'[t] \in {"session", "done"}
    /\ out'[t] \in {<<>>, <<ErrorEnvelope("Session not found or access denied")>>,
                    <<ExceptionEnvelope("service")>>}
    /\ turn'[t].user_message = 0
    /\ (pc'[t] = "done" /\ turn'[t].request.kind = "route") => turn'[t].http_status \in {404, 500}

CreatingTurns ==
    {t \in Turns : /\ turn[t].request.kind = "service"
                   /\ turn[t].request.context_options = "enabled"
                   /\ turn[t].session # NoSession
                   /\ turn[t].session.context = <<>>
                   /\ pc[t] = "done"
                   /\ Completed(t)}

C24_Cancellation ==
    [][\A t \in Turns :
          turn'[t].cancelled =>
             /\ out'[t] = out[t]
             /\ AssistantRows(t)' = AssistantRows(t)
             /\ AssistantRows(t)' # {} => turn'[t].complete_received]_vars

\* a client gone after chunks were forwarded and before the complete: the
\* user message is in the table, the partial text is not
C24_Witness ==
    \E t \in Turns :
       /\ turn[t].cancelled
       /\ ~turn[t].complete_received
       /\ turn[t].full_response # <<>>
       /\ out[t] # <<>>
       /\ turn[t].user_message # 0
       /\ AssistantRows(t) = {}

====
